---- MODULE Spec2Model ----
(***************************************************************************)
(* Verification model of the knowledge-graph engine: the breadth-first     *)
(* explorer and path finder (graph-explorer.ts), the circular-dependency   *)
(* detector, the node lookup caches (node-lookup.ts, node-index.ts,        *)
(* graph-storage), the node indexes and the readable id system.            *)
(*                                                                         *)
(* Strings of the program are sequences of one-character strings, so that  *)
(* toLowerCase, includes and the id formats are computed, not assumed.     *)
(* Scores are in hundredths (1.0 is 100).                                  *)
(***************************************************************************)
EXTENDS Integers, Sequences, FiniteSets, TLC

VARIABLES
  \* ---- GraphExplorer.exploreGraph (graph-explorer.ts:28-185)
  exGraph,          \* the stored graph: [nodes, edges]
  exQuery,          \* nodeQuery
  exOpts,           \* options as passed by the caller (0 = absent/falsy)
  exPc,             \* "start" | "loop" | "edges" | "done"
  exRoot,           \* <<startNode>> or <<>> (null)
  nodesToExplore,   \* queue of [nodeId, level]
  exploredNodes,    \* Set<string>
  resultNodes,      \* GraphNode[]
  resultEdges,      \* GraphEdge[]
  truncated,        \* boolean
  exCur,            \* the dequeued [nodeId, level]
  exPending,        \* the edges of the current for-loop still to process
  \* ---- ReadableIdSystem (readable-id-system.ts:30-132)
  usedIds,          \* Set<string>
  fileAbbreviations,\* Map<string, string> as a set of <<path, abbreviation>>
  idCalls,          \* the createNodeId calls made so far, with their results
  \* ---- NodeIndex (node-index.ts:22-376), EnhancedNodeIndex (part_006)
  ixGraph,          \* the graph handed to the constructors
  nodeIndex,        \* <<NodeIndex object>> once constructed, else <<>>
  enhIndex,         \* <<EnhancedNodeIndex object>> once constructed, else <<>>
  ixAnswer,         \* the last getNode call: [on, query, result]
  \* ---- GraphExplorer.findPath (graph-explorer.ts:414-541) and
  \* ---- EnhancedNodeIndex.findShortestPath (part_006:361-410)
  paImpl,           \* which of the two searches the call is
  paGraph,          \* the stored graph
  paIndex,          \* the index the search resolves nodes with
  paFrom,           \* fromNodeQuery / fromId
  paTo,             \* toNodeQuery / toId
  paMaxDepth,       \* maxDepth as passed: <<n>>, or <<>> when absent
  paRelTypes,       \* options.relationTypes (findPath only), <<>> if absent
  paPc,             \* "start" | "loop" | "edges" | "done"
  paEnds,           \* the resolved [from, to] ids
  paQueue,          \* queue of [nodeId, path, edgePath]
  paVisited,        \* Set<string>
  paCur,            \* the dequeued item
  paPending,        \* the edges of the current for-loop still to process
  paResult,         \* <<result>> once the call returned, else <<>>
  \* ---- DependencyAnalyzer.findCircularDependenciesInGraph
  \* ---- (graph-explorer.ts:829-888)
  cyGraph,          \* the graph analysed
  cyMaxCycles,      \* maxCycles
  cyPc,             \* "outer" | "dfs" | "done"
  cyNext,           \* position of the outer for loop in graph.nodes
  cyStack,          \* the dfs calls in progress, innermost last
  cycles,           \* CircularDependency[]
  visitedPaths,     \* Set<string> of cycle keys
  \* ---- NodeLookupService (node-index.ts:394-752)
  svStore,          \* the graph store: graph id -> <<graph>> or <<>> (none)
  svNow,            \* Date.now()
  svTicks,          \* how often the clock advanced
  svCaches,         \* caches: graph id -> <<NodeCache>> or <<>> (no entry)
  svInitializing,   \* initializing: graph id -> <<build>> or <<>> (no entry)
  svBuilds,         \* the initPromise of every build started, in order
  svCallers,        \* the getCache calls: caller -> [pc, graphId, build, result]
  \* ---- NodeLookup.getIndexForGraph (node-lookup.ts:227-246) and
  \* ---- GraphStorage.getIndexedGraph (part_002:486-505)
  lkStore,          \* the graph store: graph id -> <<graph>> or <<>> (none)
  graphIndexCache,  \* NodeLookup: graph id -> <<index>> or <<>> (no entry)
  indexCache,       \* GraphStorage: graph id -> <<index>> or <<>> (no entry)
  lkCallers,        \* the calls: caller -> [method, pc, graphId, during, result]
  \* ---- the entry points of GraphExplorer and DependencyAnalyzer
  \* ---- (graph-explorer.ts:28-69, 305-343, 414-456, 548-568, 676-722,
  \* ---- 787-803) up to the point where they hold node and graph
  epStore,          \* the graph of the id asked for: <<graph>> or <<>> (none)
  epIndexCache,     \* nodeLookup's graphIndexCache entry of the id, or <<>>
  epCall,           \* the call: [op, queries, pc, pending, found, result]
  \* ---- the index builders over a graph as read from storage: new NodeIndex
  \* ---- (node-index.ts:36-38, 249-304) in GraphStorage.getIndexedGraph
  \* ---- (part_002:493-504), NodeLookupService.initializeCache
  \* ---- (node-index.ts:419-472), new EnhancedNodeIndex (part_006:63-111)
  bdGraph,          \* the graph fetched; a collection may be missing from it
  bdIndexCache,     \* GraphStorage.indexCache entry: <<NodeIndex>> or <<>>
  bdCaches,         \* NodeLookupService.caches entry: <<NodeCache>> or <<>>
  bdEnhanced,       \* the EnhancedNodeIndex constructed: <<index>> or <<>>
  bdDone,           \* the builders that ran
  bdThrew,          \* the builders that threw
  \* ---- NodeIndex.findNodes (node-index.ts:43-124) and
  \* ---- NodeLookup.findNodes (node-lookup.ts:67-164)
  fnGraph,          \* the graph indexed
  fnIndex,          \* the NodeIndex built from it
  fnFound,          \* the call made: [on, query, its options, results]
  \* ---- SearchIndex (part_004:154-942)
  siGraph,          \* the graph indexed
  siIndex,          \* the SearchIndex after buildIndex(graph)
  siCall,           \* the call made: [fn, query, semantic, asked, results]
  \* ---- DependencyAnalyzer.findCriticalPath (graph-explorer.ts:987-1029)
  cpGraph,          \* the graph analysed
  cpNodeId,         \* the id of the node the chain starts at
  cpResult,         \* <<>>, or <<[longestPath, names]>> once the call returned
  \* DependencyAnalyzer.findDependencies
  dpGraph,         \* the stored graph
  dpQuery,         \* nodeQuery
  dpDirection,     \* 'incoming' | 'outgoing' | 'both'
  dpResult,        \* <<>> or <<the analysis returned>>
  \* SearchEngine.searchNodes and GraphExplorer.searchNodes
  seGraph,         \* the graph searched
  seFound          \* <<>> or <<the call made and what it returned>>

exVars == <<exGraph, exQuery, exOpts, exPc, exRoot, nodesToExplore,
            exploredNodes, resultNodes, resultEdges, truncated, exCur,
            exPending>>

idVars == <<usedIds, fileAbbreviations, idCalls>>

ixVars == <<ixGraph, nodeIndex, enhIndex, ixAnswer>>

paVars == <<paImpl, paGraph, paIndex, paFrom, paTo, paMaxDepth, paRelTypes,
            paPc, paEnds, paQueue, paVisited, paCur, paPending, paResult>>

cyVars == <<cyGraph, cyMaxCycles, cyPc, cyNext, cyStack, cycles, visitedPaths>>

svVars == <<svStore, svNow, svTicks, svCaches, svInitializing, svBuilds,
            svCallers>>

lkVars == <<lkStore, graphIndexCache, indexCache, lkCallers>>

epVars == <<epStore, epIndexCache, epCall>>

bdVars == <<bdGraph, bdIndexCache, bdCaches, bdEnhanced, bdDone, bdThrew>>

fnVars == <<fnGraph, fnIndex, fnFound>>

siVars == <<siGraph, siIndex, siCall>>

cpVars == <<cpGraph, cpNodeId, cpResult>>

dpVars == <<dpGraph, dpQuery, dpDirection, dpResult>>

seVars == <<seGraph, seFound>>

vars == <<exVars, idVars, ixVars, paVars, cyVars, svVars, lkVars, epVars,
          bdVars, fnVars, siVars, cpVars, dpVars, seVars>>

\* What the actions of each component leave alone
exOthers == <<idVars, ixVars, paVars, cyVars, svVars, lkVars, epVars, bdVars,
              fnVars, siVars, cpVars, dpVars, seVars>>
idOthers == <<exVars, ixVars, paVars, cyVars, svVars, lkVars, epVars, bdVars,
              fnVars, siVars, cpVars, dpVars, seVars>>
ixOthers == <<exVars, idVars, paVars, cyVars, svVars, lkVars, epVars, bdVars,
              fnVars, siVars, cpVars, dpVars, seVars>>
paOthers == <<exVars, idVars, ixVars, cyVars, svVars, lkVars, epVars, bdVars,
              fnVars, siVars, cpVars, dpVars, seVars>>
cyOthers == <<exVars, idVars, ixVars, paVars, svVars, lkVars, epVars, bdVars,
              fnVars, siVars, cpVars, dpVars, seVars>>
svOthers == <<exVars, idVars, ixVars, paVars, cyVars, lkVars, epVars, bdVars,
              fnVars, siVars, cpVars, dpVars, seVars>>
lkOthers == <<exVars, idVars, ixVars, paVars, cyVars, svVars, epVars, bdVars,
              fnVars, siVars, cpVars, dpVars, seVars>>
epOthers == <<exVars, idVars, ixVars, paVars, cyVars, svVars, lkVars, bdVars,
              fnVars, siVars, cpVars, dpVars, seVars>>
bdOthers == <<exVars, idVars, ixVars, paVars, cyVars, svVars, lkVars, epVars,
              fnVars, siVars, cpVars, dpVars, seVars>>
fnOthers == <<exVars, idVars, ixVars, paVars, cyVars, svVars, lkVars, epVars,
              bdVars, siVars, cpVars, dpVars, seVars>>
siOthers == <<exVars, idVars, ixVars, paVars, cyVars, svVars, lkVars, epVars,
              bdVars, fnVars, cpVars, dpVars, seVars>>
cpOthers == <<exVars, idVars, ixVars, paVars, cyVars, svVars, lkVars, epVars,
              bdVars, fnVars, siVars, dpVars, seVars>>
dpOthers == <<exVars, idVars, ixVars, paVars, cyVars, svVars, lkVars, epVars,
              bdVars, fnVars, siVars, cpVars, seVars>>
seOthers == <<exVars, idVars, ixVars, paVars, cyVars, svVars, lkVars, epVars,
              bdVars, fnVars, siVars, cpVars, dpVars>>

----------------------------------------------------------------------------
(* Strings *)

UpperToLower ==
  [A |-> "a", B |-> "b", C |-> "c", D |-> "d", E |-> "e", F |-> "f",
   G |-> "g", H |-> "h", I |-> "i", J |-> "j", K |-> "k", L |-> "l",
   M |-> "m", N |-> "n", O |-> "o", P |-> "p", Q |-> "q", R |-> "r",
   S |-> "s", T |-> "t", U |-> "u", V |-> "v", W |-> "w", X |-> "x",
   Y |-> "y", Z |-> "z"]

LowerChar(c) == IF c \in DOMAIN UpperToLower THEN UpperToLower[c] ELSE c

\* String.prototype.toLowerCase
ToLowerCase(s) == [i \in 1..Len(s) |-> LowerChar(s[i])]

\* String.prototype.includes
Includes(s, t) ==
  \E i \in 0..(Len(s) - Len(t)) : SubSeq(s, i + 1, i + Len(t)) = t

\* Array.prototype.slice(0, n)
Take(seq, n) == SubSeq(seq, 1, IF n < Len(seq) THEN n ELSE Len(seq))

\* Array.prototype.includes / Set.has on a sequence
InSeq(x, seq) == \E i \in 1..Len(seq) : seq[i] = x

----------------------------------------------------------------------------
(* NodeLookup (node-lookup.ts): the id -> node map used by the explorer.   *)
(* The Map is modelled by the sequence of its values in insertion order.   *)

\* getIndexForGraph's index construction, lines 238-242
BuildNodeMap(graph) == graph.nodes

\* Map.get(id) as a list of zero or one node
MapGet(index, id) == Take(SelectSeq(index, LAMBDA n : n.id = id), 1)

HasResult(results, node) ==
  \E i \in 1..Len(results) : results[i].node.id = node.id

MaxScore(results) ==
  CHOOSE s \in {results[i].score : i \in 1..Len(results)} :
    \A i \in 1..Len(results) : results[i].score <= s

RemoveAt(seq, k) == SubSeq(seq, 1, k - 1) \o SubSeq(seq, k + 1, Len(seq))

\* results.sort((a, b) => b.score - a.score): a stable descending sort
RECURSIVE SortByScore(_)
SortByScore(results) ==
  IF results = <<>> THEN <<>>
  ELSE LET m == MaxScore(results)
           k == CHOOSE i \in 1..Len(results) :
                  /\ results[i].score = m
                  /\ \A j \in 1..(i - 1) : results[j].score # m
       IN <<results[k]>> \o SortByScore(RemoveAt(results, k))

DefaultMaxResults == 10

\* NodeLookup.findNodes, the regular search (no searchInFiles, no nodeType,
\* no exactMatchOnly: the explorer never passes them)
LookupFindNodes(index, nodeQuery, maxResults, includeFuzzy) ==
  IF Len(index) = 0 THEN <<>>
  ELSE
    LET q == ToLowerCase(nodeQuery)
        exact == MapGet(index, nodeQuery)
        r1 == [i \in 1..Len(exact) |->
                 [node |-> exact[i], score |-> 100, reason |-> "exact_id"]]
        named == SelectSeq(index, LAMBDA n :
                   ToLowerCase(n.name) = q /\ ~HasResult(r1, n))
        r2 == r1 \o [i \in 1..Len(named) |->
                 [node |-> named[i], score |-> 90, reason |-> "exact_name"]]
        fuzzy == IF includeFuzzy
                 THEN SelectSeq(index, LAMBDA n :
                        /\ ~HasResult(r2, n)
                        /\ \/ Includes(ToLowerCase(n.name), q)
                           \/ Includes(ToLowerCase(n.id), q))
                 ELSE <<>>
        r3 == r2 \o [i \in 1..Len(fuzzy) |->
                 [node |-> fuzzy[i], score |-> 70, reason |-> "fuzzy"]]
    IN Take(SortByScore(r3),
            IF maxResults = 0 THEN DefaultMaxResults ELSE maxResults)

\* NodeLookup.findNode: the best match, as a list of zero or one node
LookupFindNode(index, nodeQuery) ==
  LET results == LookupFindNodes(index, nodeQuery, 1, TRUE)
  IN IF Len(results) > 0 THEN <<results[1].node>> ELSE <<>>

\* NodeLookup.getNode: direct lookup, then the name fallback
LookupGetNode(index, nodeId) ==
  LET node == MapGet(index, nodeId)
  IN IF node # <<>> THEN node
     ELSE LET results == LookupFindNodes(index, nodeId, 1, FALSE)
          IN IF Len(results) > 0 THEN <<results[1].node>> ELSE <<>>

----------------------------------------------------------------------------
(* GraphExplorer.exploreGraph: inputs *)

MaxEdges == 3        \* edges in an input graph
MaxDepthOpt == 2     \* largest depth option tried
MaxNodesOpt == 3     \* largest maxNodes option tried

NodeA == [id |-> <<"A">>, name |-> <<"f", "a">>, type |-> "Function"]
NodeB == [id |-> <<"B">>, name |-> <<"D">>, type |-> "Function"]
NodeC == [id |-> <<"C">>, name |-> <<"k">>, type |-> "Class"]

ExNodeList == <<NodeA, NodeB, NodeC>>

Edge(f, t, ty) == [from |-> f, to |-> t, type |-> ty]

\* The edges an input graph draws from, in file order.  <<"D">> is the id
\* of no node (a dangling endpoint) and the name of node B.
ExEdgePool ==
  <<Edge(<<"A">>, <<"B">>, "CALLS"),
    Edge(<<"A">>, <<"C">>, "IMPORTS"),
    Edge(<<"B">>, <<"C">>, "CALLS"),
    Edge(<<"C">>, <<"A">>, "CALLS"),
    Edge(<<"B">>, <<"B">>, "CALLS"),
    Edge(<<"A">>, <<"D">>, "CALLS"),
    Edge(<<"A">>, <<"B">>, "CALLS")>>

RECURSIVE PickFrom(_, _, _)
PickFrom(pool, S, k) ==
  IF k > Len(pool) THEN <<>>
  ELSE (IF k \in S THEN <<pool[k]>> ELSE <<>>) \o PickFrom(pool, S, k + 1)

ExGraphs ==
  {[nodes |-> ExNodeList, edges |-> PickFrom(ExEdgePool, S, 1)] :
     S \in {T \in SUBSET (1..Len(ExEdgePool)) : Cardinality(T) <= MaxEdges}}

ExQueries == {<<"A">>, <<"z">>}

ExOptions ==
  [depth : 0..MaxDepthOpt,
   maxNodes : 0..MaxNodesOpt,
   direction : {"outgoing", "incoming", "both"},
   relationTypes : {<<>>, <<"CALLS">>},
   excludeTypes : {<<>>, <<"Class">>},
   includeEdges : BOOLEAN]

(* GraphExplorer.exploreGraph: defaults, lines 45-49 *)

DefaultDepth == 2
DefaultMaxNodes == 100

ExDepth(options) == IF options.depth = 0 THEN DefaultDepth ELSE options.depth

ExMaxNodes(options) ==
  IF options.maxNodes = 0 THEN DefaultMaxNodes ELSE options.maxNodes

\* lines 88-106: the edges of nodeId per direction, then the relation filter
ExEdgesOf(graph, options, nodeId) ==
  LET out == IF options.direction \in {"outgoing", "both"}
             THEN SelectSeq(graph.edges, LAMBDA e : e.from = nodeId)
             ELSE <<>>
      inc == IF options.direction \in {"incoming", "both"}
             THEN SelectSeq(graph.edges, LAMBDA e : e.to = nodeId)
             ELSE <<>>
      edges == out \o inc
  IN IF Len(options.relationTypes) > 0
     THEN SelectSeq(edges, LAMBDA e : InSeq(e.type, options.relationTypes))
     ELSE edges

\* line 111
ConnectedNodeId(edge, nodeId) ==
  IF edge.from = nodeId THEN edge.to ELSE edge.from

\* lines 118-123
HasEdge(edges, edge) ==
  \E i \in 1..Len(edges) :
    /\ edges[i].from = edge.from
    /\ edges[i].to = edge.to
    /\ edges[i].type = edge.type

InitExplore ==
  /\ exGraph \in ExGraphs
  /\ exQuery \in ExQueries
  /\ exOpts \in ExOptions
  /\ exPc = "start"
  /\ exRoot = <<>>
  /\ nodesToExplore = <<>>
  /\ exploredNodes = {}
  /\ resultNodes = <<>>
  /\ resultEdges = <<>>
  /\ truncated = FALSE
  /\ exCur = [nodeId |-> <<>>, level |-> 0]
  /\ exPending = <<>>

\* lines 51-63: the starting node is not found
ExNotFound ==
  /\ exPc = "start"
  /\ LookupFindNode(BuildNodeMap(exGraph), exQuery) = <<>>
  /\ exPc' = "done"
  /\ UNCHANGED <<exGraph, exQuery, exOpts, exRoot, nodesToExplore,
                 exploredNodes, resultNodes, resultEdges, truncated, exCur,
                 exPending>>
  /\ UNCHANGED exOthers

\* lines 51-78: the starting node is found and the search is set up
ExStart ==
  /\ exPc = "start"
  /\ LET startNode == LookupFindNode(BuildNodeMap(exGraph), exQuery)
     IN /\ startNode # <<>>
        /\ exRoot' = startNode
        /\ exploredNodes' = {startNode[1].id}
        /\ nodesToExplore' = <<[nodeId |-> startNode[1].id, level |-> 0]>>
        /\ resultNodes' = startNode
  /\ resultEdges' = <<>>
  /\ truncated' = FALSE
  /\ exPc' = "loop"
  /\ UNCHANGED <<exGraph, exQuery, exOpts, exCur, exPending>>
  /\ UNCHANGED exOthers

\* line 80: the while condition
ExWhile ==
  /\ Len(nodesToExplore) > 0
  /\ Len(resultNodes) < ExMaxNodes(exOpts)

\* lines 80-106: dequeue; at the depth limit continue, else fetch the edges
ExDequeue ==
  /\ exPc = "loop"
  /\ ExWhile
  /\ LET item == Head(nodesToExplore)
     IN /\ exCur' = item
        /\ nodesToExplore' = Tail(nodesToExplore)
        /\ IF item.level >= ExDepth(exOpts)
           THEN exPending' = <<>> /\ exPc' = "loop"
           ELSE /\ exPending' = ExEdgesOf(exGraph, exOpts, item.nodeId)
                /\ exPc' = "edges"
  /\ UNCHANGED <<exGraph, exQuery, exOpts, exRoot, exploredNodes,
                 resultNodes, resultEdges, truncated>>
  /\ UNCHANGED exOthers

\* lines 80, 169-180: the loop ends and the result is returned
ExReturn ==
  /\ exPc = "loop"
  /\ ~ExWhile
  /\ exPc' = "done"
  /\ UNCHANGED <<exGraph, exQuery, exOpts, exRoot, nodesToExplore,
                 exploredNodes, resultNodes, resultEdges, truncated, exCur,
                 exPending>>
  /\ UNCHANGED exOthers

\* line 109: the for loop over the edges is exhausted
ExEndFor ==
  /\ exPc = "edges"
  /\ exPending = <<>>
  /\ exPc' = "loop"
  /\ UNCHANGED <<exGraph, exQuery, exOpts, exRoot, nodesToExplore,
                 exploredNodes, resultNodes, resultEdges, truncated, exCur,
                 exPending>>
  /\ UNCHANGED exOthers

\* lines 113-128: the neighbour is already explored; the edge is kept once
ExEdgeExplored ==
  /\ exPc = "edges"
  /\ exPending # <<>>
  /\ LET edge == Head(exPending)
     IN /\ ConnectedNodeId(edge, exCur.nodeId) \in exploredNodes
        /\ resultEdges' =
             IF exOpts.includeEdges /\ ~HasEdge(resultEdges, edge)
             THEN Append(resultEdges, edge)
             ELSE resultEdges
  /\ exPending' = Tail(exPending)
  /\ UNCHANGED <<exGraph, exQuery, exOpts, exPc, exRoot, nodesToExplore,
                 exploredNodes, resultNodes, truncated, exCur>>
  /\ UNCHANGED exOthers

\* lines 130-146: the neighbour is unknown to the lookup, or of an excluded
\* type
ExEdgeSkip ==
  /\ exPc = "edges"
  /\ exPending # <<>>
  /\ LET edge == Head(exPending)
         connectedNodeId == ConnectedNodeId(edge, exCur.nodeId)
         connectedNode == LookupGetNode(BuildNodeMap(exGraph), connectedNodeId)
     IN /\ connectedNodeId \notin exploredNodes
        /\ \/ connectedNode = <<>>
           \/ /\ connectedNode # <<>>
              /\ InSeq(connectedNode[1].type, exOpts.excludeTypes)
  /\ exPending' = Tail(exPending)
  /\ UNCHANGED <<exGraph, exQuery, exOpts, exPc, exRoot, nodesToExplore,
                 exploredNodes, resultNodes, resultEdges, truncated, exCur>>
  /\ UNCHANGED exOthers

\* lines 148-165: the neighbour joins the result and the queue; at maxNodes
\* the flag is set and the for loop is left
ExEdgeAdd ==
  /\ exPc = "edges"
  /\ exPending # <<>>
  /\ LET edge == Head(exPending)
         connectedNodeId == ConnectedNodeId(edge, exCur.nodeId)
         connectedNode == LookupGetNode(BuildNodeMap(exGraph), connectedNodeId)
     IN /\ connectedNodeId \notin exploredNodes
        /\ connectedNode # <<>>
        /\ ~InSeq(connectedNode[1].type, exOpts.excludeTypes)
        /\ resultNodes' = Append(resultNodes, connectedNode[1])
        /\ resultEdges' = IF exOpts.includeEdges
                          THEN Append(resultEdges, edge)
                          ELSE resultEdges
        /\ exploredNodes' = exploredNodes \cup {connectedNodeId}
        /\ nodesToExplore' =
             Append(nodesToExplore,
                    [nodeId |-> connectedNodeId, level |-> exCur.level + 1])
        /\ IF Len(resultNodes) + 1 >= ExMaxNodes(exOpts)
           THEN truncated' = TRUE /\ exPending' = <<>> /\ exPc' = "loop"
           ELSE truncated' = truncated /\ exPending' = Tail(exPending)
                /\ exPc' = exPc
  /\ UNCHANGED <<exGraph, exQuery, exOpts, exRoot, exCur>>
  /\ UNCHANGED exOthers

NextExplore ==
  \/ ExNotFound
  \/ ExStart
  \/ ExDequeue
  \/ ExReturn
  \/ ExEndFor
  \/ ExEdgeExplored
  \/ ExEdgeSkip
  \/ ExEdgeAdd

\* No exploration in progress (the other components' specifications)
IdleExplore ==
  /\ exGraph = [nodes |-> <<>>, edges |-> <<>>]
  /\ exQuery = <<>>
  /\ exOpts = [depth |-> 0, maxNodes |-> 0, direction |-> "both",
               relationTypes |-> <<>>, excludeTypes |-> <<>>,
               includeEdges |-> TRUE]
  /\ exPc = "idle"
  /\ exRoot = <<>>
  /\ nodesToExplore = <<>>
  /\ exploredNodes = {}
  /\ resultNodes = <<>>
  /\ resultEdges = <<>>
  /\ truncated = FALSE
  /\ exCur = [nodeId |-> <<>>, level |-> 0]
  /\ exPending = <<>>

(* Claims about exploreGraph *)

ExFound == exPc = "done" /\ exRoot # <<>>

\* The nodes one hop from id along the requested direction and relation
\* types, never entering a node of an excluded type
ExHop(graph, options, id) ==
  {n \in {graph.nodes[i] : i \in 1..Len(graph.nodes)} :
     /\ ~InSeq(n.type, options.excludeTypes)
     /\ \E k \in 1..Len(graph.edges) :
          LET e == graph.edges[k]
          IN /\ \/ options.relationTypes = <<>>
                \/ InSeq(e.type, options.relationTypes)
             /\ \/ /\ options.direction \in {"outgoing", "both"}
                   /\ e.from = id /\ e.to = n.id
                \/ /\ options.direction \in {"incoming", "both"}
                   /\ e.to = id /\ e.from = n.id}

\* The ids reachable from root in at most d hops
RECURSIVE ReachWithin(_, _, _, _)
ReachWithin(graph, options, root, d) ==
  IF d = 0 THEN {root}
  ELSE LET R == ReachWithin(graph, options, root, d - 1)
       IN R \cup UNION {{n.id : n \in ExHop(graph, options, m)} : m \in R}

\* C1: for a found root (and explicit depth >= 1, maxNodes >= 1), truncated
\* is true if and only if the number of nodes reachable within depth hops is
\* strictly greater than maxNodes; with exactly maxNodes reachable it is
\* false.
C1_TruncatedIffExceeds ==
  (ExFound /\ exOpts.depth >= 1 /\ exOpts.maxNodes >= 1) =>
    (truncated <=>
       Cardinality(ReachWithin(exGraph, exOpts, exRoot[1].id, exOpts.depth))
         > exOpts.maxNodes)

\* C2: depth = 0 on a found root returns exactly the root node and no edges.
C2_DepthZeroRootOnly ==
  (ExFound /\ exOpts.depth = 0) =>
    (Len(resultNodes) = 1 /\ resultNodes[1] = exRoot[1] /\ resultEdges = <<>>)

\* the ids of the nodes returned
ExResultIds == {resultNodes[i].id : i \in 1..Len(resultNodes)}

\* the hop distance of id from the root, depth + 1 when it is not reachable
\* within depth hops
ExDistance(id) ==
  CHOOSE d \in 0..(exOpts.depth + 1) :
    /\ d <= exOpts.depth =>
         id \in ReachWithin(exGraph, exOpts, exRoot[1].id, d)
    /\ \A c \in 0..(d - 1) :
         id \notin ReachWithin(exGraph, exOpts, exRoot[1].id, c)

\* C22: for depth d >= 1 and a result that is not truncated, the nodes
\* returned are exactly the nodes reachable from the root in at most d hops
\* along edges of the requested direction and relation types, never entering
\* a node of an excluded type, and they are listed in non-decreasing hop
\* distance from the root.
C22_ReachableInHopOrder ==
  (ExFound /\ exOpts.depth >= 1 /\ ~truncated) =>
    /\ ExResultIds =
         ReachWithin(exGraph, exOpts, exRoot[1].id, exOpts.depth)
    /\ \A i, j \in 1..Len(resultNodes) :
         i < j => ExDistance(resultNodes[i].id) <= ExDistance(resultNodes[j].id)

\* C29: at every step of the breadth-first search of exploreGraph the ids
\* of the result nodes are pairwise distinct and are exactly the explored
\* ids, and every result edge has both endpoints among the ids of the result
\* nodes, also when the graph has a dangling edge whose endpoint is the name
\* of a node.
C29_ResultIsSubgraph ==
  exRoot # <<>> =>
    /\ \A i, j \in 1..Len(resultNodes) :
         resultNodes[i].id = resultNodes[j].id => i = j
    /\ ExResultIds = exploredNodes
    /\ \A k \in 1..Len(resultEdges) :
         /\ resultEdges[k].from \in ExResultIds
         /\ resultEdges[k].to \in ExResultIds

----------------------------------------------------------------------------
(* ReadableIdSystem (readable-id-system.ts) *)

Digits == {"0", "1", "2", "3", "4", "5", "6", "7", "8", "9"}
DigitChar == <<"0", "1", "2", "3", "4", "5", "6", "7", "8", "9">>

WordChars ==
  DOMAIN UpperToLower \cup {UpperToLower[c] : c \in DOMAIN UpperToLower}
    \cup Digits \cup {"_"}

\* Number to decimal string, as the template literal `${counter}` does
RECURSIVE NumToStr(_)
NumToStr(n) ==
  IF n < 10 THEN <<DigitChar[n + 1]>>
  ELSE NumToStr(n \div 10) \o <<DigitChar[(n % 10) + 1]>>

\* String.prototype.split on a one-character separator
RECURSIVE Split(_, _)
Split(s, sep) ==
  IF \A i \in 1..Len(s) : s[i] # sep THEN <<s>>
  ELSE LET k == CHOOSE i \in 1..Len(s) :
                  s[i] = sep /\ \A j \in 1..(i - 1) : s[j] # sep
       IN <<SubSeq(s, 1, k - 1)>> \o Split(SubSeq(s, k + 1, Len(s)), sep)

MaxIdPartLen == 20

\* sanitizeName, lines 103-110
SanitizeName(name) ==
  LET replaced == [i \in 1..Len(name) |->
                     IF name[i] \in WordChars THEN name[i] ELSE "_"]
      collapsed == PickFrom(replaced,
                     {i \in 1..Len(replaced) :
                        ~(replaced[i] = "_" /\ i > 1 /\ replaced[i - 1] = "_")},
                     1)
      noLead == IF collapsed # <<>> /\ Head(collapsed) = "_"
                THEN Tail(collapsed) ELSE collapsed
      trimmed == IF noLead # <<>> /\ noLead[Len(noLead)] = "_"
                 THEN SubSeq(noLead, 1, Len(noLead) - 1) ELSE noLead
  IN Take(ToLowerCase(trimmed), MaxIdPartLen)

DomainIndicators ==
  {<<"a", "u", "t", "h">>, <<"u", "s", "e", "r">>,
   <<"p", "a", "y", "m", "e", "n", "t">>, <<"o", "r", "d", "e", "r">>,
   <<"p", "r", "o", "d", "u", "c", "t">>, <<"a", "d", "m", "i", "n">>,
   <<"a", "p", "i">>, <<"s", "e", "r", "v", "i", "c", "e">>,
   <<"c", "o", "n", "t", "r", "o", "l", "l", "e", "r">>,
   <<"m", "o", "d", "e", "l">>, <<"v", "i", "e", "w">>,
   <<"c", "o", "m", "p", "o", "n", "e", "n", "t">>,
   <<"b", "u", "s", "i", "n", "e", "s", "s">>, <<"d", "a", "t", "a">>,
   <<"v", "a", "l", "i", "d", "a", "t", "i", "o", "n">>,
   <<"u", "t", "i", "l", "s">>, <<"c", "o", "r", "e">>,
   <<"s", "h", "a", "r", "e", "d">>}

\* extractDomain, lines 58-83
ExtractDomain(filePath) ==
  LET normalizedPath == [i \in 1..Len(filePath) |->
                           IF filePath[i] = "\\" THEN "/" ELSE filePath[i]]
      parts == Split(normalizedPath, "/")
      hits == {i \in 1..Len(parts) :
                 \E ind \in DomainIndicators :
                   Includes(ToLowerCase(parts[i]), ind)}
      srcs == {i \in 1..Len(parts) : ToLowerCase(parts[i]) = <<"s", "r", "c">>}
  IN IF hits # {}
     THEN LET i == CHOOSE h \in hits : \A g \in hits : h <= g
          IN SanitizeName(ToLowerCase(parts[i]))
     ELSE IF srcs # {}
     THEN LET i == CHOOSE h \in srcs : \A g \in srcs : h <= g
          IN IF i + 1 <= Len(parts) THEN SanitizeName(parts[i + 1])
             ELSE <<"m", "a", "i", "n">>
     ELSE <<"m", "a", "i", "n">>

\* path.extname of a base name (POSIX)
ExtName(base) ==
  LET dots == {i \in 1..Len(base) : base[i] = "."}
  IN IF dots = {} THEN <<>>
     ELSE LET k == CHOOSE d \in dots : \A e \in dots : e <= d
          IN IF k = 1 THEN <<>> ELSE SubSeq(base, k, Len(base))

\* path.basename(filePath, path.extname(filePath)) (POSIX), line 93
BaseNameNoExt(filePath) ==
  LET parts == SelectSeq(Split(filePath, "/"), LAMBDA x : x # <<>>)
      base == IF parts = <<>> THEN <<>> ELSE parts[Len(parts)]
      ext == ExtName(base)
  IN IF ext # <<>> /\ ext # base
     THEN SubSeq(base, 1, Len(base) - Len(ext))
     ELSE base

MemoGet(memo, key) == {p[2] : p \in {q \in memo : q[1] = key}}

\* getFileAbbreviation, lines 88-98: the value returned
FileAbbreviation(memo, filePath) ==
  IF MemoGet(memo, filePath) # {}
  THEN CHOOSE a \in MemoGet(memo, filePath) : TRUE
  ELSE SanitizeName(BaseNameNoExt(filePath))

\* getFileAbbreviation, lines 88-98: the map afterwards
FileAbbreviationsAfter(memo, filePath) ==
  IF MemoGet(memo, filePath) # {} THEN memo
  ELSE memo \cup {<<filePath, SanitizeName(BaseNameNoExt(filePath))>>}

\* `${baseId}_${counter}`, lines 123 and 127
Suffixed(baseId, counter) == baseId \o <<"_">> \o NumToStr(counter)

\* createNodeId, lines 38-43: the base id type.name.domain_file
BaseId(memo, type, name, filePath) ==
  ToLowerCase(type) \o <<".">> \o SanitizeName(name) \o <<".">>
    \o ExtractDomain(filePath) \o <<"_">> \o FileAbbreviation(memo, filePath)

\* ensureUniqueness, lines 122-128: the while loop
RECURSIVE FirstFreeCounter(_, _, _)
FirstFreeCounter(used, baseId, counter) ==
  IF Suffixed(baseId, counter) \in used
  THEN FirstFreeCounter(used, baseId, counter + 1)
  ELSE counter

\* Mutant: the first suffix is taken without looking whether it is used
EnsureUniquenessNoLoop(used, baseId) ==
  IF baseId \notin used THEN baseId ELSE Suffixed(baseId, 2)

\* Mutant: the base id is handed out again for a triple seen before
EnsureUniquenessReuse(used, baseId) == baseId

\* ensureUniqueness, lines 115-132: the id returned
EnsureUniqueness(used, baseId) ==
  IF baseId \notin used THEN baseId
  ELSE Suffixed(baseId, FirstFreeCounter(used, baseId, 2))

(* Inputs *)

MaxCalls == 4       \* createNodeId calls on one ReadableIdSystem

TypeFunction == <<"F", "u", "n", "c", "t", "i", "o", "n">>
TypeClass == <<"C", "l", "a", "s", "s">>

\* (type, name, filePath) triples; the second has the base id of the first,
\* and the base id of the third is the first's with the suffix _2
IdTriples ==
  {<<TypeFunction, <<"f", "o", "o">>, <<"a", ".", "t", "s">>>>,
   <<TypeFunction, <<"F", "o", "o">>, <<"a", ".", "t", "s">>>>,
   <<TypeFunction, <<"f", "o", "o">>, <<"a", "_", "2", ".", "t", "s">>>>,
   <<TypeClass, <<"f", "-", "o">>,
     <<"s", "r", "c", "/", "c", "o", "r", "e", "/", "a", ".", "t", "s">>>>}

InitIds ==
  /\ usedIds = {}
  /\ fileAbbreviations = {}
  /\ idCalls = <<>>

\* createNodeId, lines 37-46 (with ensureUniqueness, lines 115-132)
CreateNodeId(triple) ==
  LET baseId == BaseId(fileAbbreviations, triple[1], triple[2], triple[3])
      id == EnsureUniqueness(usedIds, baseId)
  IN /\ fileAbbreviations' = FileAbbreviationsAfter(fileAbbreviations, triple[3])
     /\ usedIds' = usedIds \cup {id}
     /\ idCalls' = Append(idCalls, [triple |-> triple, baseId |-> baseId,
                                    id |-> id])

CreateNodeIdCall ==
  /\ Len(idCalls) < MaxCalls
  /\ \E triple \in IdTriples : CreateNodeId(triple)
  /\ UNCHANGED idOthers

NextIds == CreateNodeIdCall

(* Claims about the ReadableIdSystem *)

IdsBefore(i) == {idCalls[j].id : j \in 1..(i - 1)}

C8_UniqueSmallestSuffix ==
  \A i \in 1..Len(idCalls) :
    LET c == idCalls[i]
        prior == IdsBefore(i)
    IN /\ c.id \notin prior
       /\ usedIds = IdsBefore(Len(idCalls) + 1)
       /\ IF c.baseId \notin prior THEN c.id = c.baseId
          ELSE \E k \in 2..(Len(idCalls) + 1) :
                 /\ c.id = Suffixed(c.baseId, k)
                 /\ \A m \in 2..(k - 1) : Suffixed(c.baseId, m) \in prior

\* A call whose base id is used and whose _2 form was issued earlier as the
\* base id of another node, so that it received _3
C8_Witness ==
  \E i, l \in 1..Len(idCalls) :
    /\ i < l
    /\ idCalls[i].id = idCalls[i].baseId
    /\ idCalls[i].baseId = Suffixed(idCalls[l].baseId, 2)
    /\ idCalls[l].id = Suffixed(idCalls[l].baseId, 3)

----------------------------------------------------------------------------
(* Maps and Sets in insertion order.  A Map is a sequence of <<key, value>> *)
(* pairs with distinct keys, a Set a sequence without repetition.           *)

MHas(m, k) == \E i \in 1..Len(m) : m[i][1] = k

\* Map.get as a list of zero or one value
MGet(m, k) ==
  LET hit == SelectSeq(m, LAMBDA p : p[1] = k)
  IN IF hit = <<>> THEN <<>> ELSE <<hit[1][2]>>

\* Map.set: a present key keeps its place
MSet(m, k, v) ==
  IF MHas(m, k)
  THEN [i \in 1..Len(m) |-> IF m[i][1] = k THEN <<k, v>> ELSE m[i]]
  ELSE Append(m, <<k, v>>)

\* Set.add
SAdd(set, x) == IF InSeq(x, set) THEN set ELSE Append(set, x)

\* if (!map.has(k)) map.set(k, new Set()); map.get(k).add(x)
MAddToSet(m, k, x) ==
  MSet(m, k, SAdd(IF MHas(m, k) THEN MGet(m, k)[1] ELSE <<>>, x))

\* if (!map.has(k)) map.set(k, []); map.get(k).push(x)
MPush(m, k, x) ==
  MSet(m, k, Append(IF MHas(m, k) THEN MGet(m, k)[1] ELSE <<>>, x))

MValues(m) == [i \in 1..Len(m) |-> m[i][2]]

----------------------------------------------------------------------------
(* NodeIndex (node-index.ts:22-376) *)

HexChar == <<"0", "1", "2", "3", "4", "5", "6", "7", "8", "9",
             "a", "b", "c", "d", "e", "f">>

HashDigits == 8

\* createHash("sha256").update(id).digest("hex").substring(0, 8).  SHA-256
\* is not computed: a deterministic digest of the length of the id stands
\* for it, so distinct ids may share a hash, as they may with 8 hex digits.
Hash8(originalId) ==
  [i \in 1..HashDigits |->
     IF i < HashDigits THEN "0" ELSE HexChar[(Len(originalId) % 16) + 1]]

\* normalizeId, lines 306-313, for the counter value after ++
NormalizeId(counter, originalId) ==
  <<"n", "o", "d", "e", "_">> \o NumToStr(counter) \o <<"_">>
    \o Hash8(originalId)

\* addTrigrams, lines 315-325
AddTrigrams(trigrams, text, nodeId) ==
  LET Fold[i \in 0..Len(text)] ==
        IF i = 0 THEN trigrams
        ELSE IF i > Len(text) - 2 THEN Fold[i - 1]
        ELSE MAddToSet(Fold[i - 1], SubSeq(text, i, i + 2), nodeId)
  IN Fold[Len(text)]

NormalizeSlashes(path) ==
  [i \in 1..Len(path) |-> IF path[i] = "\\" THEN "/" ELSE path[i]]

EmptyNodeIndex ==
  [nodes |-> <<>>, nameIndex |-> <<>>, fileIndex |-> <<>>,
   typeIndex |-> <<>>, originalIdIndex |-> <<>>, reverseIdIndex |-> <<>>,
   nameTrigrams |-> <<>>, nodeCounter |-> 0]

\* buildIndexes, lines 252-297: the body of the loop for one node
NiAddNode(ix, node) ==
  LET counter == ix.nodeCounter + 1
      normalizedId == NormalizeId(counter, node.id)
      indexedNode == [id |-> normalizedId, name |-> node.name,
                      type |-> node.type, file |-> node.file,
                      isExported |-> node.isExported,
                      originalId |-> node.id]
      nameKey == ToLowerCase(node.name)
  IN [nodes |-> MSet(ix.nodes, normalizedId, indexedNode),
      originalIdIndex |->
        MSet(MSet(ix.originalIdIndex, node.id, normalizedId),
             node.name, normalizedId),
      reverseIdIndex |-> MSet(ix.reverseIdIndex, normalizedId, node.id),
      nameIndex |-> MAddToSet(ix.nameIndex, nameKey, normalizedId),
      fileIndex |->
        IF node.file # <<>>
        THEN MAddToSet(ix.fileIndex,
                       ToLowerCase(NormalizeSlashes(node.file)), normalizedId)
        ELSE ix.fileIndex,
      typeIndex |-> MAddToSet(ix.typeIndex, node.type, normalizedId),
      nameTrigrams |-> AddTrigrams(ix.nameTrigrams, nameKey, normalizedId),
      nodeCounter |-> counter]

\* buildIndexes, lines 249-304 (the constructor, lines 36-38)
RECURSIVE NiBuildFrom(_, _, _)
NiBuildFrom(ix, nodes, k) ==
  IF k > Len(nodes) THEN ix
  ELSE NiBuildFrom(NiAddNode(ix, nodes[k]), nodes, k + 1)

NiBuildIndexes(graph) == NiBuildFrom(EmptyNodeIndex, graph.nodes, 1)

\* getNode, lines 130-142, as a list of zero or one node
NiGetNode(ix, nodeId) ==
  LET node == MGet(ix.nodes, nodeId)
  IN IF node # <<>> THEN node
     ELSE LET normalizedId == MGet(ix.originalIdIndex, nodeId)
          IN IF normalizedId # <<>> /\ normalizedId[1] # <<>>
             THEN MGet(ix.nodes, normalizedId[1])
             ELSE <<>>

\* matchesType, lines 369-371; an absent nodeType is <<>>
NiMatchesType(node, nodeType) == nodeType = <<>> \/ node.type = nodeType[1]

\* hasNode, lines 373-375
NiHasNode(results, node) ==
  \E i \in 1..Len(results) : results[i].node.id = node.id

\* for (const nodeId of nodeIds): push, with the score and reason of the tier,
\* the nodes of the ids that match the type and are not yet among the results
RECURSIVE NiPushIds(_, _, _, _, _, _)
NiPushIds(ix, results, nodeIds, nodeType, score, reason) ==
  IF nodeIds = <<>> THEN results
  ELSE LET node == MGet(ix.nodes, Head(nodeIds))
           next ==
             IF /\ node # <<>>
                /\ NiMatchesType(node[1], nodeType)
                /\ ~NiHasNode(results, node[1])
             THEN Append(results, [node |-> node[1], score |-> score,
                                   reason |-> reason])
             ELSE results
       IN NiPushIds(ix, next, Tail(nodeIds), nodeType, score, reason)

\* the loop over the entries of fileIndex, lines 95-109
RECURSIVE NiPartialFile(_, _, _, _, _)
NiPartialFile(ix, results, k, normalizedQuery, nodeType) ==
  IF k > Len(ix.fileIndex) THEN results
  ELSE NiPartialFile(ix,
         IF Includes(ix.fileIndex[k][1], normalizedQuery)
         THEN NiPushIds(ix, results, ix.fileIndex[k][2], nodeType, 60,
                        "file_path")
         ELSE results,
         k + 1, normalizedQuery, nodeType)

\* the trigrams of the query, a Set in insertion order (lines 334-336)
NiQueryTrigrams(queryLower) ==
  LET Fold[i \in 0..Len(queryLower)] ==
        IF i = 0 THEN <<>>
        ELSE IF i > Len(queryLower) - 2 THEN Fold[i - 1]
        ELSE SAdd(Fold[i - 1], SubSeq(queryLower, i, i + 2))
  IN Fold[Len(queryLower)]

\* candidateScores, lines 339-346: node id -> number of query trigrams the
\* name of the node has, in the order the ids are first met
RECURSIVE NiCount(_, _)
NiCount(scores, nodeIds) ==
  IF nodeIds = <<>> THEN scores
  ELSE LET had == MGet(scores, Head(nodeIds))
       IN NiCount(MSet(scores, Head(nodeIds),
                       (IF had = <<>> THEN 0 ELSE had[1]) + 1),
                  Tail(nodeIds))

RECURSIVE NiCandidateScores(_, _, _)
NiCandidateScores(ix, scores, trigrams) ==
  IF trigrams = <<>> THEN scores
  ELSE LET matching == MGet(ix.nameTrigrams, Head(trigrams))
       IN NiCandidateScores(ix,
            NiCount(scores, IF matching = <<>> THEN <<>> ELSE matching[1]),
            Tail(trigrams))

\* line 349 with the test of line 352: trigramMatches >= Math.max(1, size *
\* 0.3), in tenths
NiMinScoreDoubled(trigramMatches, size) ==
  trigramMatches >= 1 /\ 10 * trigramMatches >= 6 * size

NiMinScoreMet(trigramMatches, size) ==
  trigramMatches >= 1 /\ 10 * trigramMatches >= 3 * size

\* fuzzySearch, lines 327-367.  Scores are in hundredths: similarity * 0.6
\* is 60 * trigramMatches / queryTrigrams.size, a whole number of hundredths
\* for the sizes the queries here have (1 to 6)
NiFuzzySearch(ix, query, nodeType) ==
  IF Len(query) < 3 THEN <<>>
  ELSE
    LET queryTrigrams == NiQueryTrigrams(ToLowerCase(query))
        size == Len(queryTrigrams)
        candidateScores == NiCandidateScores(ix, <<>>, queryTrigrams)
        kept == SelectSeq(candidateScores, LAMBDA c :
                  /\ NiMinScoreMet(c[2], size)
                  /\ MGet(ix.nodes, c[1]) # <<>>
                  /\ NiMatchesType(MGet(ix.nodes, c[1])[1], nodeType))
    IN SortByScore([i \in 1..Len(kept) |->
                      [node |-> MGet(ix.nodes, kept[i][1])[1],
                       score |-> (60 * kept[i][2]) \div size,
                       reason |-> "fuzzy"]])

\* the loop of lines 114-118
RECURSIVE NiPushNew(_, _)
NiPushNew(results, more) ==
  IF more = <<>> THEN results
  ELSE NiPushNew(IF NiHasNode(results, Head(more).node) THEN results
                 ELSE Append(results, Head(more)),
                 Tail(more))

\* findNodes, lines 43-124; maxResults as passed, <<>> when absent
NiFindNodes(ix, query, nodeType, maxResults, includeFuzzy) ==
  LET exactNode == NiGetNode(ix, query)
      r1 == IF exactNode # <<>> /\ NiMatchesType(exactNode[1], nodeType)
            THEN <<[node |-> exactNode[1], score |-> 100,
                    reason |-> "exact_id"]>>
            ELSE <<>>
      nameMatches == MGet(ix.nameIndex, ToLowerCase(query))
      r2 == NiPushIds(ix, r1,
                      IF nameMatches = <<>> THEN <<>> ELSE nameMatches[1],
                      nodeType, 90, "exact_name")
      normalizedQuery == ToLowerCase(NormalizeSlashes(query))
      fileMatches == MGet(ix.fileIndex, normalizedQuery)
      r3 == IF InSeq(".", query) \/ InSeq("/", query) \/ InSeq("\\", query)
            THEN NiPartialFile(ix,
                   NiPushIds(ix, r2,
                             IF fileMatches = <<>> THEN <<>>
                             ELSE fileMatches[1],
                             nodeType, 80, "file_path"),
                   1, normalizedQuery, nodeType)
            ELSE r2
      r4 == IF includeFuzzy /\ Len(query) >= 3
            THEN NiPushNew(r3, NiFuzzySearch(ix, query, nodeType))
            ELSE r3
  IN Take(SortByScore(r4),
          IF maxResults = <<>> THEN DefaultMaxResults ELSE maxResults[1])

----------------------------------------------------------------------------
(* EnhancedNodeIndex (part_006:44-546) *)

FileUnknown == <<"u", "n", "k", "n", "o", "w", "n">>

\* ReadableIdSystem.parseId, readable-id-system.ts:137-153: the domain group
\* of /^([^.]+)\.([^.]+)\.([^_]+)_(.+)$/, as a list of zero or one string
ParseIdDomain(id) ==
  LET parts == Split(id, ".")
  IN IF Len(parts) < 3 \/ parts[1] = <<>> \/ parts[2] = <<>> THEN <<>>
     ELSE LET rest == SubSeq(id, Len(parts[1]) + Len(parts[2]) + 3, Len(id))
              pieces == Split(rest, "_")
          IN IF Len(pieces) < 2 \/ pieces[1] = <<>>
                \/ Len(rest) = Len(pieces[1]) + 1
             THEN <<>>
             ELSE <<pieces[1]>>

EmptyEnhancedIndex ==
  [usedIds |-> {}, fileAbbreviations |-> {},
   nodes |-> <<>>, typeIndex |-> <<>>, domainIndex |-> <<>>,
   nameIndex |-> <<>>, outgoingEdgeIndex |-> <<>>,
   incomingEdgeIndex |-> <<>>, edgeTypeIndex |-> <<>>, edgeIndex |-> <<>>,
   originalIdMapping |-> <<>>, reverseIdMapping |-> <<>>]

\* buildIndexes phase 1, lines 74-92, with indexNode, lines 116-138
EnAddNode(ix, node) ==
  LET filePath == IF node.file # <<>> THEN node.file ELSE FileUnknown
      baseId == BaseId(ix.fileAbbreviations, node.type, node.name, filePath)
      newId == EnsureUniqueness(ix.usedIds, baseId)
      enhancedNode == [id |-> newId, name |-> node.name, type |-> node.type,
                       file |-> node.file, isExported |-> node.isExported,
                       originalId |-> node.id]
      parsed == ParseIdDomain(newId)
  IN [ix EXCEPT
        !.usedIds = @ \cup {newId},
        !.fileAbbreviations = FileAbbreviationsAfter(@, filePath),
        !.originalIdMapping = MSet(@, node.id, newId),
        !.reverseIdMapping = MSet(@, newId, node.id),
        !.nodes = MSet(@, newId, enhancedNode),
        !.typeIndex = MAddToSet(@, node.type, newId),
        !.domainIndex = IF parsed # <<>> THEN MAddToSet(@, parsed[1], newId)
                        ELSE @,
        !.nameIndex = MAddToSet(@, ToLowerCase(node.name), newId)]

\* indexEdge, lines 143-164.  The key `${from}--${type}-->${to}` is the
\* triple: ids and types hold no "-" or ">".
EnIndexEdge(ix, edge) ==
  [ix EXCEPT
     !.edgeIndex = MSet(@, <<edge.from, edge.type, edge.to>>, edge),
     !.outgoingEdgeIndex = MPush(@, edge.from, edge),
     !.incomingEdgeIndex = MPush(@, edge.to, edge),
     !.edgeTypeIndex = MPush(@, edge.type, edge)]

\* the body of the loop without the test of line 99: an endpoint that does
\* not resolve is kept as it is
EnAddEdgeUnresolved(ix, edge) ==
  LET newFromId == MGet(ix.originalIdMapping, edge.from)
      newToId == MGet(ix.originalIdMapping, edge.to)
  IN EnIndexEdge(ix, [edge EXCEPT
                        !.from = IF newFromId # <<>> THEN newFromId[1] ELSE @,
                        !.to = IF newToId # <<>> THEN newToId[1] ELSE @])

\* buildIndexes phase 2, lines 95-108: the body of the loop for one edge
EnAddEdge(ix, edge) ==
  LET newFromId == MGet(ix.originalIdMapping, edge.from)
      newToId == MGet(ix.originalIdMapping, edge.to)
  IN IF /\ newFromId # <<>> /\ newFromId[1] # <<>>
        /\ newToId # <<>> /\ newToId[1] # <<>>
     THEN EnIndexEdge(ix, [edge EXCEPT !.from = newFromId[1],
                                       !.to = newToId[1]])
     ELSE ix

RECURSIVE EnNodesFrom(_, _, _)
EnNodesFrom(ix, nodes, k) ==
  IF k > Len(nodes) THEN ix
  ELSE EnNodesFrom(EnAddNode(ix, nodes[k]), nodes, k + 1)

RECURSIVE EnEdgesFrom(_, _, _)
EnEdgesFrom(ix, edges, k) ==
  IF k > Len(edges) THEN ix
  ELSE EnEdgesFrom(EnAddEdge(ix, edges[k]), edges, k + 1)

\* buildIndexes, lines 70-111 (the constructor, lines 63-65)
EnBuildIndexes(graph) ==
  EnEdgesFrom(EnNodesFrom(EmptyEnhancedIndex, graph.nodes, 1), graph.edges, 1)

\* getNode, lines 173-185, as a list of zero or one node
EnGetNode(ix, nodeId) ==
  LET node == MGet(ix.nodes, nodeId)
  IN IF node # <<>> THEN node
     ELSE LET newId == MGet(ix.originalIdMapping, nodeId)
          IN IF newId # <<>> /\ newId[1] # <<>>
             THEN MGet(ix.nodes, newId[1])
             ELSE <<>>

\* resolveNodeId, lines 536-545
EnResolveNodeId(ix, nodeId) ==
  IF MHas(ix.nodes, nodeId) THEN nodeId
  ELSE LET newId == MGet(ix.originalIdMapping, nodeId)
       IN IF newId # <<>> /\ newId[1] # <<>> THEN newId[1] ELSE nodeId

\* getOutgoingEdges, lines 304-307
EnGetOutgoingEdges(ix, nodeId) ==
  LET edges == MGet(ix.outgoingEdgeIndex, EnResolveNodeId(ix, nodeId))
  IN IF edges # <<>> THEN edges[1] ELSE <<>>

(* Inputs of the index constructors *)

MaxIxNodes == 3     \* nodes in an input graph of the indexes

INode(id, name, type, file, exported) ==
  [id |-> id, name |-> name, type |-> type, file |-> file,
   isExported |-> exported]

FileA == <<"a", ".", "t", "s">>

\* Nodes with pairwise distinct original ids.  The second is named like the
\* id of the first; the third has the name, type and file of the first; the
\* id of the fourth is the readable id the first receives.
IxNodePool ==
  {INode(<<"x">>, <<"f", "o", "o">>, TypeFunction, FileA, FALSE),
   INode(<<"y">>, <<"x">>, TypeFunction, FileA, FALSE),
   INode(<<"z">>, <<"f", "o", "o">>, TypeFunction, FileA, TRUE),
   INode(<<"f", "u", "n", "c", "t", "i", "o", "n", ".", "f", "o", "o", ".",
           "m", "a", "i", "n", "_", "a">>,
         <<"b", "a", "r">>, TypeClass, <<>>, FALSE)}

\* Sequences of distinct pool nodes
IxNodeLists ==
  UNION {{l \in [1..n -> IxNodePool] :
            \A i, j \in 1..n : i # j => l[i] # l[j]} : n \in 0..MaxIxNodes}

IxEdgePool ==
  <<Edge(<<"x">>, <<"y">>, "CALLS"),
    Edge(<<"y">>, <<"z">>, "IMPORTS"),
    Edge(<<"x">>, <<"q">>, "CALLS")>>

IxGraphs ==
  {[nodes |-> l, edges |-> PickFrom(IxEdgePool, S, 1)] :
     l \in IxNodeLists, S \in SUBSET (1..Len(IxEdgePool))}

\* The ids asked of getNode: the original ids and the ids the index assigned
IxQueries(graph, ix) ==
  {graph.nodes[i].id : i \in 1..Len(graph.nodes)}
    \cup {ix.nodes[i][1] : i \in 1..Len(ix.nodes)}
    \cup {<<"q">>}

InitIndex ==
  /\ ixGraph \in IxGraphs
  /\ nodeIndex = <<>>
  /\ enhIndex = <<>>
  /\ ixAnswer = <<>>

IdleIndex ==
  /\ ixGraph = [nodes |-> <<>>, edges |-> <<>>]
  /\ nodeIndex = <<>>
  /\ enhIndex = <<>>
  /\ ixAnswer = <<>>

\* new NodeIndex(graph), node-index.ts:36-38
NiConstruct ==
  /\ nodeIndex = <<>>
  /\ nodeIndex' = <<NiBuildIndexes(ixGraph)>>
  /\ UNCHANGED <<ixGraph, enhIndex, ixAnswer>>
  /\ UNCHANGED ixOthers

\* new EnhancedNodeIndex(graph), part_006:63-65
EnConstruct ==
  /\ enhIndex = <<>>
  /\ enhIndex' = <<EnBuildIndexes(ixGraph)>>
  /\ UNCHANGED <<ixGraph, nodeIndex, ixAnswer>>
  /\ UNCHANGED ixOthers

\* a caller's nodeIndex.getNode(nodeId)
NiGetNodeCall ==
  /\ nodeIndex # <<>>
  /\ \E q \in IxQueries(ixGraph, nodeIndex[1]) :
       ixAnswer' = <<[on |-> "NodeIndex", query |-> q,
                      result |-> NiGetNode(nodeIndex[1], q)]>>
  /\ UNCHANGED <<ixGraph, nodeIndex, enhIndex>>
  /\ UNCHANGED ixOthers

\* a caller's enhancedIndex.getNode(nodeId)
EnGetNodeCall ==
  /\ enhIndex # <<>>
  /\ \E q \in IxQueries(ixGraph, enhIndex[1]) :
       ixAnswer' = <<[on |-> "EnhancedNodeIndex", query |-> q,
                      result |-> EnGetNode(enhIndex[1], q)]>>
  /\ UNCHANGED <<ixGraph, nodeIndex, enhIndex>>
  /\ UNCHANGED ixOthers

NextIndex == NiConstruct \/ EnConstruct \/ NiGetNodeCall \/ EnGetNodeCall

(* Claims about the indexes *)

IxGetNode(on, ix, nodeId) ==
  IF on = "NodeIndex" THEN NiGetNode(ix, nodeId) ELSE EnGetNode(ix, nodeId)

\* the canonical id of the node whose id in the graph is originalId, as a
\* list of zero or one id
IxCanonical(ix, originalId) ==
  LET hit == SelectSeq(MValues(ix.nodes), LAMBDA n : n.originalId = originalId)
  IN IF hit = <<>> THEN <<>> ELSE <<hit[Len(hit)].id>>

\* the input edges both of whose endpoints resolve, with the canonical ids
\* in place of the endpoints
IxRetained(ix, graph) ==
  LET kept == SelectSeq(graph.edges, LAMBDA e :
                IxCanonical(ix, e.from) # <<>> /\ IxCanonical(ix, e.to) # <<>>)
  IN [i \in 1..Len(kept) |->
        [kept[i] EXCEPT !.from = IxCanonical(ix, kept[i].from)[1],
                        !.to = IxCanonical(ix, kept[i].to)[1]]]

\* C27: after EnhancedNodeIndex is built, every edge held in the outgoing,
\* incoming or type adjacency has both from and to equal to canonical ids of
\* indexed nodes; input edges with an endpoint that does not resolve are
\* absent; and every retained edge e is in outgoing[e.from], in
\* incoming[e.to] and in the list of its type.
C27_AdjacencyOverIndexedNodes ==
  enhIndex # <<>> =>
    LET ix == enhIndex[1]
        retained == IxRetained(ix, ixGraph)
        lists == <<ix.outgoingEdgeIndex, ix.incomingEdgeIndex,
                   ix.edgeTypeIndex>>
    IN /\ \A l \in 1..3 : \A i \in 1..Len(lists[l]) :
            \A j \in 1..Len(lists[l][i][2]) :
              LET e == lists[l][i][2][j]
              IN /\ MHas(ix.nodes, e.from) /\ MHas(ix.nodes, e.to)
                 /\ InSeq(e, retained)
       /\ \A k \in 1..Len(retained) :
            LET e == retained[k]
            IN /\ MHas(ix.outgoingEdgeIndex, e.from)
               /\ InSeq(e, MGet(ix.outgoingEdgeIndex, e.from)[1])
               /\ MHas(ix.incomingEdgeIndex, e.to)
               /\ InSeq(e, MGet(ix.incomingEdgeIndex, e.to)[1])
               /\ MHas(ix.edgeTypeIndex, e.type)
               /\ InSeq(e, MGet(ix.edgeTypeIndex, e.type)[1])

\* C27 witness: an index built of a graph with an edge that is retained and
\* an edge one endpoint of which is the id of no node
C27_Witness ==
  /\ enhIndex # <<>>
  /\ IxRetained(enhIndex[1], ixGraph) # <<>>
  /\ Len(IxRetained(enhIndex[1], ixGraph)) < Len(ixGraph.edges)
  /\ enhIndex[1].outgoingEdgeIndex # <<>>

\* C6: for every node n of the input graph, getNode(original id of n) returns
\* the indexed node derived from n (the one stored under the id the index
\* assigned to n), and getNode of that assigned id returns the same node,
\* whatever the names and ids of the other nodes are.
C6_ResolveStable ==
  ixAnswer # <<>> =>
    LET a == ixAnswer[1]
        ix == IF a.on = "NodeIndex" THEN nodeIndex[1] ELSE enhIndex[1]
    IN \A i \in 1..Len(ixGraph.nodes) :
         a.query = ixGraph.nodes[i].id =>
           /\ a.result = <<ix.nodes[i][2]>>
           /\ a.result = IxGetNode(a.on, ix, ix.nodes[i][1])

----------------------------------------------------------------------------
(* Shortest paths: GraphExplorer.findPath (graph-explorer.ts:414-541) and  *)
(* EnhancedNodeIndex.findShortestPath (part_006:361-410)                   *)

MaxPathEdges == 3   \* edges in an input graph of the path searches
MaxPathDepth == 3   \* largest maxDepth a caller passes

PaNodeList ==
  <<INode(<<"x">>, <<"f", "o", "o">>, TypeFunction, FileA, FALSE),
    INode(<<"y">>, <<"x">>, TypeFunction, FileA, FALSE),
    INode(<<"z">>, <<"f", "o", "o">>, TypeFunction, FileA, TRUE),
    INode(<<"w">>, <<"b", "a", "z">>, TypeClass, <<>>, FALSE)>>

PaEdgePool ==
  <<Edge(<<"x">>, <<"y">>, "CALLS"),
    Edge(<<"y">>, <<"z">>, "CALLS"),
    Edge(<<"z">>, <<"w">>, "CALLS"),
    Edge(<<"x">>, <<"z">>, "IMPORTS"),
    Edge(<<"z">>, <<"x">>, "CALLS"),
    Edge(<<"y">>, <<"y">>, "CALLS"),
    Edge(<<"x">>, <<"y">>, "IMPORTS")>>

PaGraphs ==
  {[nodes |-> PaNodeList, edges |-> PickFrom(PaEdgePool, S, 1)] :
     S \in {T \in SUBSET (1..Len(PaEdgePool)) : Cardinality(T) <= MaxPathEdges}}

PaNodeIds == {PaNodeList[i].id : i \in 1..Len(PaNodeList)}

PaMaxDepths == {<<>>} \cup {<<n>> : n \in 0..MaxPathDepth}

DefaultPathMaxDepth == 10       \* options.maxDepth || 10
DefaultShortestMaxDepth == 5    \* maxDepth: number = 5

NoPath == [found |-> FALSE, path |-> <<>>, edges |-> <<>>, length |-> 0]

InitPath ==
  /\ paImpl \in {"findPath", "findShortestPath"}
  /\ paGraph \in PaGraphs
  /\ paIndex = IF paImpl = "findPath" THEN BuildNodeMap(paGraph)
               ELSE EnBuildIndexes(paGraph)
  /\ paFrom \in PaNodeIds
  /\ paTo \in PaNodeIds
  /\ paMaxDepth \in PaMaxDepths
  /\ paRelTypes \in IF paImpl = "findPath" THEN {<<>>, <<"CALLS">>}
                    ELSE {<<>>}
  /\ paPc = "start"
  /\ paEnds = <<>>
  /\ paQueue = <<>>
  /\ paVisited = <<>>
  /\ paCur = <<>>
  /\ paPending = <<>>
  /\ paResult = <<>>

IdlePath ==
  /\ paImpl = "none"
  /\ paGraph = [nodes |-> <<>>, edges |-> <<>>]
  /\ paIndex = <<>>
  /\ paFrom = <<>>
  /\ paTo = <<>>
  /\ paMaxDepth = <<>>
  /\ paRelTypes = <<>>
  /\ paPc = "idle"
  /\ paEnds = <<>>
  /\ paQueue = <<>>
  /\ paVisited = <<>>
  /\ paCur = <<>>
  /\ paPending = <<>>
  /\ paResult = <<>>

paInputs == <<paImpl, paGraph, paIndex, paFrom, paTo, paMaxDepth, paRelTypes>>

PaReturn(result) ==
  /\ paResult' = <<result>>
  /\ paPc' = "done"
  /\ paQueue' = <<>>
  /\ paPending' = <<>>
  /\ UNCHANGED <<paEnds, paVisited, paCur>>

(* GraphExplorer.findPath *)

\* const maxDepth = options.maxDepth || 10, line 434
FpMaxDepth ==
  IF paMaxDepth # <<>> /\ paMaxDepth[1] # 0 THEN paMaxDepth[1]
  ELSE DefaultPathMaxDepth

\* what find() gives when no node has the id
Undefined == [undefined |-> TRUE]

\* graph.nodes.find((n) => n.id === id)!, lines 479-481
FpNodeOf(id) ==
  LET hit == SelectSeq(paGraph.nodes, LAMBDA n : n.id = id)
  IN IF hit = <<>> THEN Undefined ELSE hit[1]

\* lines 497-507
FpFilteredEdges(nodeId) ==
  LET outgoingEdges == SelectSeq(paGraph.edges, LAMBDA e : e.from = nodeId)
  IN IF Len(paRelTypes) > 0
     THEN SelectSeq(outgoingEdges, LAMBDA e : InSeq(e.type, paRelTypes))
     ELSE outgoingEdges

\* lines 436-473: resolve both nodes, seed the queue
FpStart ==
  /\ paImpl = "findPath" /\ paPc = "start"
  /\ LET fromNode == LookupFindNode(paIndex, paFrom)
         toNode == LookupFindNode(paIndex, paTo)
     IN IF fromNode = <<>> \/ toNode = <<>>
        THEN PaReturn(NoPath)
        ELSE /\ paEnds' = [from |-> fromNode[1].id, to |-> toNode[1].id]
             /\ paQueue' = <<[nodeId |-> fromNode[1].id,
                              path |-> <<fromNode[1].id>>,
                              edgePath |-> <<>>]>>
             /\ paVisited' = <<fromNode[1].id>>
             /\ paPc' = "loop"
             /\ UNCHANGED <<paCur, paPending, paResult>>
  /\ UNCHANGED paInputs
  /\ UNCHANGED paOthers

\* lines 474-507: one iteration of the while loop up to the for loop
FpDequeue ==
  /\ paImpl = "findPath" /\ paPc = "loop" /\ paQueue # <<>>
  /\ LET item == Head(paQueue)
     IN IF item.nodeId = paEnds.to
        THEN PaReturn([found |-> TRUE,
                       path |-> [i \in 1..Len(item.path) |->
                                   FpNodeOf(item.path[i])],
                       edges |-> item.edgePath,
                       length |-> Len(item.path) - 1])
        ELSE /\ paQueue' = Tail(paQueue)
             /\ paCur' = <<item>>
             /\ IF Len(item.path) > FpMaxDepth
                THEN paPending' = <<>> /\ paPc' = "loop"
                ELSE LET filteredEdges == FpFilteredEdges(item.nodeId)
                     IN /\ paPending' = filteredEdges
                        /\ paPc' = IF filteredEdges = <<>> THEN "loop"
                                   ELSE "edges"
             /\ UNCHANGED <<paEnds, paVisited, paResult>>
  /\ UNCHANGED paInputs
  /\ UNCHANGED paOthers

\* lines 510-527: the body of the for loop for one edge
FpEdge ==
  /\ paImpl = "findPath" /\ paPc = "edges" /\ paPending # <<>>
  /\ LET edge == Head(paPending)
         nextNodeId == edge.to
         item == paCur[1]
     IN /\ IF InSeq(nextNodeId, paVisited)
           THEN UNCHANGED <<paVisited, paQueue>>
           ELSE /\ paVisited' = SAdd(paVisited, nextNodeId)
                /\ paQueue' = Append(paQueue,
                     [nodeId |-> nextNodeId,
                      path |-> Append(item.path, nextNodeId),
                      edgePath |-> Append(item.edgePath, edge)])
        /\ paPending' = Tail(paPending)
        /\ paPc' = IF Tail(paPending) = <<>> THEN "loop" ELSE "edges"
  /\ UNCHANGED <<paEnds, paCur, paResult>>
  /\ UNCHANGED paInputs
  /\ UNCHANGED paOthers

\* lines 530-536: the queue ran empty
FpNotFound ==
  /\ paImpl = "findPath" /\ paPc = "loop" /\ paQueue = <<>>
  /\ PaReturn(NoPath)
  /\ UNCHANGED paInputs
  /\ UNCHANGED paOthers

(* EnhancedNodeIndex.findShortestPath.  It returns a PathResult or null:   *)
(* found is "the result is not null".                                      *)

SpMaxDepth ==
  IF paMaxDepth # <<>> THEN paMaxDepth[1] ELSE DefaultShortestMaxDepth

\* fullPath.map(id => this.getNode(id)!).filter(Boolean), lines 387-389
RECURSIVE SpNodePath(_, _)
SpNodePath(ix, ids) ==
  IF ids = <<>> THEN <<>>
  ELSE EnGetNode(ix, Head(ids)) \o SpNodePath(ix, Tail(ids))

\* lines 362-373
SpStart ==
  /\ paImpl = "findShortestPath" /\ paPc = "start"
  /\ LET resolvedFromId == EnResolveNodeId(paIndex, paFrom)
         resolvedToId == EnResolveNodeId(paIndex, paTo)
     IN IF resolvedFromId = resolvedToId
        THEN LET node == EnGetNode(paIndex, resolvedFromId)
             IN PaReturn(IF node # <<>>
                         THEN [found |-> TRUE, path |-> node,
                               edges |-> <<>>, length |-> 0]
                         ELSE NoPath)
        ELSE /\ paEnds' = [from |-> resolvedFromId, to |-> resolvedToId]
             /\ paQueue' = <<[nodeId |-> resolvedFromId,
                              path |-> <<resolvedFromId>>,
                              edgePath |-> <<>>]>>
             /\ paVisited' = <<resolvedFromId>>
             /\ paPc' = "loop"
             /\ UNCHANGED <<paCur, paPending, paResult>>
  /\ UNCHANGED paInputs
  /\ UNCHANGED paOthers

\* lines 375-380
SpDequeue ==
  /\ paImpl = "findShortestPath" /\ paPc = "loop" /\ paQueue # <<>>
  /\ LET item == Head(paQueue)
     IN /\ paQueue' = Tail(paQueue)
        /\ paCur' = <<item>>
        /\ IF Len(item.path) > SpMaxDepth
           THEN paPending' = <<>> /\ paPc' = "loop"
           ELSE LET outgoingEdges == EnGetOutgoingEdges(paIndex, item.nodeId)
                IN /\ paPending' = outgoingEdges
                   /\ paPc' = IF outgoingEdges = <<>> THEN "loop"
                              ELSE "edges"
  /\ UNCHANGED <<paEnds, paVisited, paResult>>
  /\ UNCHANGED paInputs
  /\ UNCHANGED paOthers

\* lines 382-406: the body of the for loop for one edge
SpEdge ==
  /\ paImpl = "findShortestPath" /\ paPc = "edges" /\ paPending # <<>>
  /\ LET edge == Head(paPending)
         item == paCur[1]
     IN IF edge.to = paEnds.to
        THEN LET fullPath == Append(item.path, edge.to)
             IN PaReturn([found |-> TRUE,
                          path |-> SpNodePath(paIndex, fullPath),
                          edges |-> Append(item.edgePath, edge),
                          length |-> Len(fullPath) - 1])
        ELSE /\ IF ~InSeq(edge.to, paVisited)
                THEN /\ paVisited' = SAdd(paVisited, edge.to)
                     /\ paQueue' = Append(paQueue,
                          [nodeId |-> edge.to,
                           path |-> Append(item.path, edge.to),
                           edgePath |-> Append(item.edgePath, edge)])
                ELSE UNCHANGED <<paVisited, paQueue>>
             /\ paPending' = Tail(paPending)
             /\ paPc' = IF Tail(paPending) = <<>> THEN "loop" ELSE "edges"
             /\ UNCHANGED <<paEnds, paCur, paResult>>
  /\ UNCHANGED paInputs
  /\ UNCHANGED paOthers

\* line 409
SpNotFound ==
  /\ paImpl = "findShortestPath" /\ paPc = "loop" /\ paQueue = <<>>
  /\ PaReturn(NoPath)
  /\ UNCHANGED paInputs
  /\ UNCHANGED paOthers

NextPath ==
  \/ FpStart \/ FpDequeue \/ FpEdge \/ FpNotFound
  \/ SpStart \/ SpDequeue \/ SpEdge \/ SpNotFound

(* Claims about the path searches *)

\* the edges the search may follow
PaUsableEdges ==
  SelectSeq(paGraph.edges,
            LAMBDA e : paRelTypes = <<>> \/ InSeq(e.type, paRelTypes))

PaHop(S) ==
  S \cup {PaUsableEdges[i].to :
            i \in {j \in 1..Len(PaUsableEdges) : PaUsableEdges[j].from \in S}}

RECURSIVE PaReach(_, _)
PaReach(S, k) == IF k = 0 THEN S ELSE PaReach(PaHop(S), k - 1)

\* the node ids within k edges of the source
PaWithin(k) == PaReach({paFrom}, k)

PaConnected == paTo \in PaWithin(Len(paGraph.nodes))

\* d: the minimum number of directed edges from the source to the target
PaDistance ==
  CHOOSE k \in 0..Len(paGraph.nodes) :
    /\ paTo \in PaWithin(k)
    /\ \A j \in 0..(k - 1) : paTo \notin PaWithin(j)

\* the maxDepth of the call: the one passed, else the documented default
PaRequestedMaxDepth ==
  IF paMaxDepth # <<>> THEN paMaxDepth[1]
  ELSE IF paImpl = "findPath" THEN DefaultPathMaxDepth
  ELSE DefaultShortestMaxDepth

PaEdgesJoin(r) ==
  /\ Len(r.path) = Len(r.edges) + 1
  /\ \A i \in 1..Len(r.edges) :
       /\ "id" \in DOMAIN r.path[i] /\ "id" \in DOMAIN r.path[i + 1]
       /\ r.edges[i].from = r.path[i].id
       /\ r.edges[i].to = r.path[i + 1].id

\* C9: a finished shortest-path search between two nodes of the graph
\* returns a path if and only if the distance d from source to target is at
\* most maxDepth; the path has exactly d edges, each joining consecutive path
\* nodes; for source = target it is the single-node path of length 0 with no
\* edges.
C9_ShortestPathWithinMaxDepth ==
  paResult # <<>> =>
    LET r == paResult[1]
    IN /\ r.found <=> (PaConnected /\ PaDistance <= PaRequestedMaxDepth)
       /\ r.found => /\ Len(r.edges) = PaDistance
                     /\ r.length = PaDistance
                     /\ PaEdgesJoin(r)
       /\ paFrom = paTo => /\ r.found
                           /\ Len(r.path) = 1
                           /\ r.edges = <<>>
                           /\ r.length = 0

----------------------------------------------------------------------------
(* DependencyAnalyzer.findCircularDependenciesInGraph                      *)
(* (graph-explorer.ts:829-888)                                             *)

MaxCycleEdges == 4  \* edges in an input graph of the cycle detector
MaxCyclesOpt == 3   \* largest maxCycles a caller passes

DefaultMaxCycles == 10

CyNode(id, type) == [id |-> id, name |-> id, type |-> type]

CyNodeLists ==
  {<<CyNode(<<"A">>, "Function"), CyNode(<<"B">>, "Function"),
     CyNode(<<"C">>, t)>> : t \in {"Function", "Class"}}

\* <<"D">> is the id of no node
CyEdgePool ==
  <<Edge(<<"A">>, <<"B">>, "CALLS"),
    Edge(<<"B">>, <<"C">>, "CALLS"),
    Edge(<<"C">>, <<"A">>, "CALLS"),
    Edge(<<"B">>, <<"A">>, "CALLS"),
    Edge(<<"A">>, <<"A">>, "CALLS"),
    Edge(<<"C">>, <<"D">>, "CALLS"),
    Edge(<<"A">>, <<"B">>, "IMPORTS")>>

\* The node types around a ring: one to five nodes, of one, two and three
\* types, with and without a File, Class or Interface
CyRingTypes ==
  {<<"File">>,
   <<"Function", "Method">>,
   <<"Function", "Interface">>,
   <<"Function", "Class", "File">>,
   <<"Function", "Method", "Variable">>,
   <<"Function", "Function", "Function", "Function">>,
   <<"Function", "Method", "Function", "Class">>,
   <<"Function", "Function", "Function", "Function", "Function">>,
   <<"Class", "Class", "Function", "Function", "Function">>}

\* the ring n1 -> n2 -> ... -> n1 over nodes of the types given
CyRing(types) ==
  [nodes |-> [i \in 1..Len(types) |->
                CyNode(<<"n">> \o NumToStr(i), types[i])],
   edges |-> [i \in 1..Len(types) |->
                Edge(<<"n">> \o NumToStr(i),
                     <<"n">> \o NumToStr((i % Len(types)) + 1), "CALLS")]]

CyGraphs ==
  {[nodes |-> l, edges |-> PickFrom(CyEdgePool, S, 1)] :
     l \in CyNodeLists,
     S \in {T \in SUBSET (1..Len(CyEdgePool)) :
              Cardinality(T) <= MaxCycleEdges}}
  \cup {CyRing(types) : types \in CyRingTypes}

InitCycles ==
  /\ cyGraph \in CyGraphs
  /\ cyMaxCycles \in (0..MaxCyclesOpt) \cup {DefaultMaxCycles}
  /\ cyPc = "outer"
  /\ cyNext = 1
  /\ cyStack = <<>>
  /\ cycles = <<>>
  /\ visitedPaths = <<>>

IdleCycles ==
  /\ cyGraph = [nodes |-> <<>>, edges |-> <<>>]
  /\ cyMaxCycles = 0
  /\ cyPc = "idle"
  /\ cyNext = 1
  /\ cyStack = <<>>
  /\ cycles = <<>>
  /\ visitedPaths = <<>>

\* Array.join(sep)
RECURSIVE Join(_, _)
Join(strs, sep) ==
  IF strs = <<>> THEN <<>>
  ELSE IF Len(strs) = 1 THEN strs[1]
  ELSE strs[1] \o sep \o Join(Tail(strs), sep)

\* Array.from(new Set(values))
RECURSIVE Distinct(_)
Distinct(values) ==
  IF values = <<>> THEN <<>>
  ELSE LET front == Distinct(SubSeq(values, 1, Len(values) - 1))
       IN SAdd(front, values[Len(values)])

\* calculateCycleSeverity with the test for a File, Class or Interface ahead
\* of the count of types
CalculateCycleSeverityKindFirst(cyclePath) ==
  LET involvedTypes == {cyclePath[i].type : i \in 1..Len(cyclePath)}
  IN IF Len(cyclePath) > 4 THEN "high"
     ELSE IF \E i \in 1..Len(cyclePath) :
               cyclePath[i].type \in {"File", "Class", "Interface"}
     THEN "medium"
     ELSE IF Cardinality(involvedTypes) > 2 THEN "high"
     ELSE "low"

\* calculateCycleSeverity, lines 1034-1060
CalculateCycleSeverity(cyclePath) ==
  LET involvedTypes == {cyclePath[i].type : i \in 1..Len(cyclePath)}
  IN IF Len(cyclePath) > 4 THEN "high"
     ELSE IF Cardinality(involvedTypes) > 2 THEN "high"
     ELSE IF \E i \in 1..Len(cyclePath) :
               cyclePath[i].type \in {"File", "Class", "Interface"}
     THEN "medium"
     ELSE "low"

\* the start of the path in place of the place of nodeId in it
FindIndexStart(path, nodeId) ==
  IF \E i \in 1..Len(path) : path[i].id = nodeId THEN 1 ELSE 0

\* path.findIndex(node => node.id === nodeId), 1-based; 0 stands for -1
FindIndex(path, nodeId) ==
  IF \E i \in 1..Len(path) : path[i].id = nodeId
  THEN CHOOSE i \in 1..Len(path) :
         /\ path[i].id = nodeId
         /\ \A j \in 1..(i - 1) : path[j].id # nodeId
  ELSE 0

\* a call dfs(nodeId, path, visited) that has not run yet
DfsCall(nodeId, path, visited) ==
  [nodeId |-> nodeId, path |-> path, visited |-> visited,
   entered |-> FALSE, pending |-> <<>>]

Pop(stack) == SubSeq(stack, 1, Len(stack) - 1)

CyAfterReturn(stack) == IF stack = <<>> THEN "outer" ELSE "dfs"

\* Mutant: the limit is tested with > in place of >=
CyLimitPassed == Len(cycles) > cyMaxCycles

\* cycles.length >= maxCycles, lines 838 and 884
CyLimitReached == Len(cycles) >= cyMaxCycles

\* lines 882-887: the outer for loop starts dfs(node.id), or ends
CyOuter ==
  /\ cyPc = "outer"
  /\ IF cyNext > Len(cyGraph.nodes) \/ CyLimitReached
     THEN /\ cyPc' = "done"
          /\ UNCHANGED <<cyNext, cyStack>>
     ELSE /\ cyStack' = <<DfsCall(cyGraph.nodes[cyNext].id, <<>>, <<>>)>>
          /\ cyNext' = cyNext + 1
          /\ cyPc' = "dfs"
  /\ UNCHANGED <<cyGraph, cyMaxCycles, cycles, visitedPaths>>
  /\ UNCHANGED cyOthers

\* lines 838-875: a dfs call from its first line to its for loop
CyEnter ==
  /\ cyPc = "dfs" /\ cyStack # <<>> /\ ~cyStack[Len(cyStack)].entered
  /\ LET top == Len(cyStack)
         f == cyStack[top]
         cycleStartIndex == FindIndex(f.path, f.nodeId)
         cyclePath == SubSeq(f.path, cycleStartIndex, Len(f.path))
         cycleKey == Join([i \in 1..Len(cyclePath) |-> cyclePath[i].id],
                          <<"-", ">">>)
         node == SelectSeq(cyGraph.nodes, LAMBDA n : n.id = f.nodeId)
     IN IF CyLimitReached
        THEN /\ cyStack' = Pop(cyStack)
             /\ cyPc' = CyAfterReturn(Pop(cyStack))
             /\ UNCHANGED <<cycles, visitedPaths>>
        ELSE IF InSeq(f.nodeId, f.visited)
        THEN /\ IF cycleStartIndex >= 1 /\ ~InSeq(cycleKey, visitedPaths)
                THEN /\ visitedPaths' = SAdd(visitedPaths, cycleKey)
                     /\ cycles' = Append(cycles,
                          [path |-> cyclePath,
                           severity |-> CalculateCycleSeverity(cyclePath),
                           cycleLength |-> Len(cyclePath),
                           involvedTypes |->
                             Distinct([i \in 1..Len(cyclePath) |->
                                         cyclePath[i].type])])
                ELSE UNCHANGED <<cycles, visitedPaths>>
             /\ cyStack' = Pop(cyStack)
             /\ cyPc' = CyAfterReturn(Pop(cyStack))
        ELSE IF node = <<>>
        THEN /\ cyStack' = Pop(cyStack)
             /\ cyPc' = CyAfterReturn(Pop(cyStack))
             /\ UNCHANGED <<cycles, visitedPaths>>
        ELSE /\ cyStack' = [cyStack EXCEPT ![top] =
                  [nodeId |-> f.nodeId,
                   path |-> Append(f.path, node[1]),
                   visited |-> SAdd(f.visited, f.nodeId),
                   entered |-> TRUE,
                   pending |-> SelectSeq(cyGraph.edges,
                                 LAMBDA e : e.from = f.nodeId)]]
             /\ cyPc' = "dfs"
             /\ UNCHANGED <<cycles, visitedPaths>>
  /\ UNCHANGED <<cyGraph, cyMaxCycles, cyNext>>
  /\ UNCHANGED cyOthers

\* lines 876-877: the for loop calls dfs(edge.to, [...path], new Set(visited))
CyCall ==
  /\ cyPc = "dfs" /\ cyStack # <<>>
  /\ LET top == Len(cyStack)
         f == cyStack[top]
     IN /\ f.entered /\ f.pending # <<>>
        /\ cyStack' = Append([cyStack EXCEPT ![top].pending = Tail(@)],
                             DfsCall(Head(f.pending).to, f.path, f.visited))
  /\ UNCHANGED <<cyGraph, cyMaxCycles, cyPc, cyNext, cycles, visitedPaths>>
  /\ UNCHANGED cyOthers

\* lines 878-879: the for loop of a dfs call is over, the call returns
CyReturn ==
  /\ cyPc = "dfs" /\ cyStack # <<>>
  /\ LET f == cyStack[Len(cyStack)]
     IN f.entered /\ f.pending = <<>>
  /\ cyStack' = Pop(cyStack)
  /\ cyPc' = CyAfterReturn(Pop(cyStack))
  /\ UNCHANGED <<cyGraph, cyMaxCycles, cyNext, cycles, visitedPaths>>
  /\ UNCHANGED cyOthers

NextCycles == CyOuter \/ CyEnter \/ CyCall \/ CyReturn

(* Claims about the cycle detector *)

ThreeCycleEdges ==
  <<Edge(<<"A">>, <<"B">>, "CALLS"),
    Edge(<<"B">>, <<"C">>, "CALLS"),
    Edge(<<"C">>, <<"A">>, "CALLS")>>

IsThreeCycleGraph ==
  /\ cyGraph.edges = ThreeCycleEdges
  /\ \A i \in 1..Len(cyGraph.nodes) : cyGraph.nodes[i].type = "Function"

\* C3: on the graph that is the directed cycle A->B->C->A (CALLS edges,
\* Function nodes), with maxCycles >= 3, the finished analysis holds exactly
\* one cycle, of length 3 and severity low.
C3_ThreeCycleReportedOnce ==
  (cyPc = "done" /\ IsThreeCycleGraph /\ cyMaxCycles >= 3) =>
    /\ Len(cycles) = 1
    /\ cycles[1].cycleLength = 3
    /\ cycles[1].severity = "low"

\* the ids of the nodes of a recorded cycle, in order
CyIds(cycle) == [i \in 1..Len(cycle.path) |-> cycle.path[i].id]

\* C19: findCircularDependencies never holds more than maxCycles cycles, no
\* two recorded cycles have the same ordered sequence of node ids, and once
\* maxCycles cycles are recorded no step of the search records another.
C19_AtMostMaxCyclesDistinct ==
  /\ [](/\ Len(cycles) <= cyMaxCycles
        /\ \A i, j \in 1..Len(cycles) :
             CyIds(cycles[i]) = CyIds(cycles[j]) => i = j)
  /\ [][Len(cycles) >= cyMaxCycles => cycles' = cycles]_vars

\* the types of the nodes of a reported cycle
CyTypes(cycle) == {cycle.path[i].type : i \in 1..Len(cycle.path)}

\* the rules of the severity, in their order
CyLong(cycle) == Len(cycle.path) > 4
CyMixed(cycle) == Cardinality(CyTypes(cycle)) > 2
CyStructural(cycle) == CyTypes(cycle) \cap {"File", "Class", "Interface"} # {}

\* C25: the severity of every reported cycle is given by the first rule
\* that matches: more than 4 nodes is high; more than 2 distinct node types
\* is high; a File, Class or Interface node in the cycle is medium;
\* otherwise low.
C25_SeverityByFirstRule ==
  \A k \in 1..Len(cycles) :
    LET cycle == cycles[k]
    IN /\ CyLong(cycle) => cycle.severity = "high"
       /\ (~CyLong(cycle) /\ CyMixed(cycle)) => cycle.severity = "high"
       /\ (~CyLong(cycle) /\ ~CyMixed(cycle) /\ CyStructural(cycle)) =>
            cycle.severity = "medium"
       /\ (~CyLong(cycle) /\ ~CyMixed(cycle) /\ ~CyStructural(cycle)) =>
            cycle.severity = "low"

\* C25 witness: a reported cycle of at most four nodes and three types, a
\* Class or File among them, which is high and not medium
C25_Witness ==
  /\ cyPc = "done"
  /\ \E k \in 1..Len(cycles) :
       /\ ~CyLong(cycles[k]) /\ CyMixed(cycles[k]) /\ CyStructural(cycles[k])
       /\ cycles[k].severity = "high"

\* the graph has an edge from the node of id a to the node of id b
CyEdgeBetween(a, b) ==
  \E k \in 1..Len(cyGraph.edges) :
    cyGraph.edges[k].from = a /\ cyGraph.edges[k].to = b

\* C28: every cycle reported is a simple directed cycle of the graph: its
\* nodes are nodes of the graph and pairwise distinct, an edge leads from
\* each node to the next in path order and from the last back to the first,
\* cycleLength is the number of nodes of the path, and involvedTypes is
\* exactly the set of their types.
C28_CyclesAreSimpleCycles ==
  \A k \in 1..Len(cycles) :
    LET cycle == cycles[k]
        n == Len(cycle.path)
    IN /\ n >= 1
       /\ \A i \in 1..n : InSeq(cycle.path[i], cyGraph.nodes)
       /\ \A i, j \in 1..n : cycle.path[i].id = cycle.path[j].id => i = j
       /\ \A i \in 1..(n - 1) :
            CyEdgeBetween(cycle.path[i].id, cycle.path[i + 1].id)
       /\ CyEdgeBetween(cycle.path[n].id, cycle.path[1].id)
       /\ cycle.cycleLength = n
       /\ {cycle.involvedTypes[i] : i \in 1..Len(cycle.involvedTypes)}
            = CyTypes(cycle)
       /\ \A i, j \in 1..Len(cycle.involvedTypes) :
            cycle.involvedTypes[i] = cycle.involvedTypes[j] => i = j

\* C28 witness: the search is over and has reported a cycle of two or more
\* nodes that leaves a node of the graph out, and a self-loop as a cycle of
\* one node
C28_Witness ==
  /\ cyPc = "done"
  /\ \E k \in 1..Len(cycles) :
       /\ Len(cycles[k].path) >= 2
       /\ Len(cycles[k].path) < Len(cyGraph.nodes)
  /\ \E k \in 1..Len(cycles) : Len(cycles[k].path) = 1

\* C19 witness: maxCycles cycles are recorded and a dfs call begins at a
\* node of its own path, closing a cycle that is not recorded yet
C19_Witness ==
  /\ cyPc = "dfs" /\ cyStack # <<>>
  /\ cyMaxCycles >= 1 /\ Len(cycles) = cyMaxCycles
  /\ LET f == cyStack[Len(cyStack)]
         from == FindIndex(f.path, f.nodeId)
     IN /\ ~f.entered
        /\ InSeq(f.nodeId, f.visited)
        /\ from >= 1
        /\ \A k \in 1..Len(cycles) :
             CyIds(cycles[k])
               # [i \in 1..(Len(f.path) - from + 1) |-> f.path[from + i - 1].id]

----------------------------------------------------------------------------
(* NodeLookupService: the per-graph node cache (node-index.ts:394-752).    *)
(* JavaScript runs one synchronous segment at a time: an action is the     *)
(* code between two awaits.                                                *)

MaxCallers == 3     \* getCache calls in a run
MaxTicks == 1       \* advances of the clock in a run

\* "g1" is stored, "g2" is in no store
SvGraphIds == {"g1", "g2"}

CacheExpiryMs == 300000     \* 5 * 60 * 1000

SvGraph ==
  [nodes |-> <<INode(<<"x">>, <<"f", "o", "o">>, TypeFunction, FileA, FALSE),
               INode(<<"y">>, <<"f", "o", "o">>, TypeClass, <<>>, FALSE)>>,
   edges |-> <<Edge(<<"x">>, <<"y">>, "CALLS")>>]

SvCallerIds == 1..MaxCallers

IdleCaller == [pc |-> "idle", graphId |-> "", build |-> 0, result |-> <<>>]

InitService ==
  /\ svStore = [g \in SvGraphIds |-> IF g = "g1" THEN <<SvGraph>> ELSE <<>>]
  /\ svNow = 0
  /\ svTicks = 0
  /\ svCaches = [g \in SvGraphIds |-> <<>>]
  /\ svInitializing = [g \in SvGraphIds |-> <<>>]
  /\ svBuilds = <<>>
  /\ svCallers = [c \in SvCallerIds |-> IdleCaller]

IdleService ==
  /\ svStore = [g \in SvGraphIds |-> <<>>]
  /\ svNow = 0
  /\ svTicks = 0
  /\ svCaches = [g \in SvGraphIds |-> <<>>]
  /\ svInitializing = [g \in SvGraphIds |-> <<>>]
  /\ svBuilds = <<>>
  /\ svCallers = [c \in {} |-> IdleCaller]

\* initializeCache, lines 425-463: the NodeCache built from a graph
RECURSIVE ScIndexFrom(_, _, _)
ScIndexFrom(cache, nodes, k) ==
  IF k > Len(nodes) THEN cache
  ELSE LET node == nodes[k]
       IN ScIndexFrom(
            [cache EXCEPT
               !.byId = MSet(@, node.id, node),
               !.byName = MPush(@, node.name, node),
               !.byType = MPush(@, node.type, node),
               !.byFile = IF node.file # <<>> THEN MPush(@, node.file, node)
                          ELSE @],
            nodes, k + 1)

BuildNodeCache(graph, now) ==
  ScIndexFrom([byId |-> <<>>, byName |-> <<>>, byType |-> <<>>,
               byFile |-> <<>>, lastUpdated |-> now],
              graph.nodes, 1)

\* getCache, lines 487-492: the entry exists and is not expired
CacheIsFresh(caches, graphId, now) ==
  /\ caches[graphId] # <<>>
  /\ now - caches[graphId][1].lastUpdated < CacheExpiryMs

\* Mutant: initializeCache without the look at initializing
InitializeCacheAlwaysStarts(initializing, graphId) == FALSE

\* initializeCache, lines 411-413: a build of the graph id is in progress
InitializeCacheJoins(initializing, graphId) == initializing[graphId] # <<>>

\* Mutant: the build ends without the delete of its finally block
InitializingKept(initializing, graphId) == initializing

\* initializeCache, lines 469-472: finally { this.initializing.delete(graphId) }
InitializingAfterFinally(initializing, graphId) ==
  [initializing EXCEPT ![graphId] = <<>>]

\* the build that filled the cache entry of a graph id: builds of one graph
\* id follow one another, the last that stored is the one
SvCacheBuild(graphId) ==
  LET stored == {b \in 1..Len(svBuilds) :
                   svBuilds[b].graphId = graphId /\ svBuilds[b].stored}
  IN CHOOSE b \in stored : \A other \in stored : other <= b

\* the entries of the graph ids go, deleted or overwritten: of their builds
\* only the ones in flight can still be stale, and are if an invalidation
\* returns now
SvMarkStale(builds, graphIds, invalidated) ==
  [b \in 1..Len(builds) |->
     IF builds[b].graphId \in graphIds
     THEN [builds[b] EXCEPT !.stale =
             /\ builds[b].state = "fetching"
             /\ (invalidated \/ builds[b].stale)]
     ELSE builds[b]]

SvNextCaller ==
  CHOOSE c \in SvCallerIds :
    /\ svCallers[c].pc = "idle"
    /\ \A d \in SvCallerIds : svCallers[d].pc = "idle" => c <= d

\* getCache(graphId) up to its await, lines 485-495, with initializeCache up
\* to the first await of its build, lines 409-476: the fetch of the graph is
\* started and the promise is put in initializing in the same segment,
\* because storage.getGraph is an async function
SvGetCache ==
  /\ \E c \in SvCallerIds : svCallers[c].pc = "idle"
  /\ \E graphId \in SvGraphIds :
       LET c == SvNextCaller
       IN IF CacheIsFresh(svCaches, graphId, svNow)
          THEN /\ svCallers' = [svCallers EXCEPT ![c] =
                    [pc |-> "returned", graphId |-> graphId, build |-> 0,
                     result |-> svCaches[graphId]]]
               /\ UNCHANGED <<svInitializing, svBuilds>>
          ELSE IF InitializeCacheJoins(svInitializing, graphId)
          THEN /\ svCallers' = [svCallers EXCEPT ![c] =
                    [pc |-> "awaiting", graphId |-> graphId,
                     build |-> svInitializing[graphId][1], result |-> <<>>]]
               /\ UNCHANGED <<svInitializing, svBuilds>>
          ELSE /\ svBuilds' = Append(svBuilds,
                    [graphId |-> graphId, state |-> "fetching",
                     stored |-> FALSE, stale |-> FALSE])
               /\ svInitializing' =
                    [svInitializing EXCEPT ![graphId] = <<Len(svBuilds) + 1>>]
               /\ svCallers' = [svCallers EXCEPT ![c] =
                    [pc |-> "awaiting", graphId |-> graphId,
                     build |-> Len(svBuilds) + 1, result |-> <<>>]]
  /\ UNCHANGED <<svStore, svNow, svTicks, svCaches>>
  /\ UNCHANGED svOthers

\* the build after its await, lines 419-472: the fetch gave a graph, gave
\* null, or threw
SvBuildSettle ==
  /\ \E b \in 1..Len(svBuilds), fetch \in {"answers", "throws"} :
       LET graphId == svBuilds[b].graphId
           graph == svStore[graphId]
       IN /\ svBuilds[b].state = "fetching"
          /\ IF fetch = "throws" \/ graph = <<>>
             THEN /\ svBuilds' = [svBuilds EXCEPT ![b].state = "rejected",
                                                  ![b].stale = FALSE]
                  /\ UNCHANGED svCaches
             ELSE /\ svCaches' = [svCaches EXCEPT ![graphId] =
                       <<BuildNodeCache(graph[1], svNow)>>]
                  /\ svBuilds' =
                       [SvMarkStale(svBuilds, {graphId}, FALSE) EXCEPT
                          ![b].state = "fulfilled", ![b].stored = TRUE]
          /\ svInitializing' = InitializingAfterFinally(svInitializing, graphId)
  /\ UNCHANGED <<svStore, svNow, svTicks, svCallers>>
  /\ UNCHANGED svOthers

\* getCache after its await, lines 495-496, for one caller: the rejection of
\* the build is the caller's, else the caller returns caches.get(graphId)
SvResumeOf(c) ==
  /\ svCallers[c].pc = "awaiting"
  /\ svBuilds[svCallers[c].build].state # "fetching"
  /\ svCallers' = [svCallers EXCEPT ![c] =
       IF svBuilds[svCallers[c].build].state = "rejected"
       THEN [@ EXCEPT !.pc = "rejected"]
       ELSE [@ EXCEPT !.pc = "returned",
                      !.result = svCaches[svCallers[c].graphId]]]
  /\ UNCHANGED <<svStore, svNow, svTicks, svCaches, svInitializing, svBuilds>>
  /\ UNCHANGED svOthers

SvResume == \E c \in SvCallerIds : SvResumeOf(c)

\* invalidateCache, lines 740-743
SvInvalidateCache ==
  /\ \E graphId \in SvGraphIds :
       /\ svCaches' = [svCaches EXCEPT ![graphId] = <<>>]
       /\ svBuilds' = SvMarkStale(svBuilds, {graphId}, TRUE)
  /\ <<svCaches', svBuilds'>> # <<svCaches, svBuilds>>
  /\ UNCHANGED <<svStore, svNow, svTicks, svInitializing, svCallers>>
  /\ UNCHANGED svOthers

\* clearAllCaches, lines 748-751
SvClearAllCaches ==
  /\ svCaches' = [g \in SvGraphIds |-> <<>>]
  /\ svBuilds' = SvMarkStale(svBuilds, SvGraphIds, TRUE)
  /\ <<svCaches', svBuilds'>> # <<svCaches, svBuilds>>
  /\ UNCHANGED <<svStore, svNow, svTicks, svInitializing, svCallers>>
  /\ UNCHANGED svOthers

\* time passes: as long as a cache entry takes to expire.  The code reads
\* the clock only to date an entry and to compare it with an entry's date
\* (lines 462, 490), so time is let pass only past an entry that was fresh
SvTick ==
  /\ svTicks < MaxTicks
  /\ \E graphId \in SvGraphIds : CacheIsFresh(svCaches, graphId, svNow)
  /\ svNow' = svNow + CacheExpiryMs
  /\ svTicks' = svTicks + 1
  /\ UNCHANGED <<svStore, svCaches, svInitializing, svBuilds, svCallers>>
  /\ UNCHANGED svOthers

NextService ==
  \/ SvGetCache \/ SvBuildSettle \/ SvResume
  \/ SvInvalidateCache \/ SvClearAllCaches \/ SvTick

(* Claims about the service cache *)

SvInFlight(graphId) ==
  {b \in 1..Len(svBuilds) :
     svBuilds[b].graphId = graphId /\ svBuilds[b].state = "fetching"}

SvAwaiting(b) ==
  {c \in SvCallerIds : svCallers[c].pc = "awaiting" /\ svCallers[c].build = b}

\* C4: at any time at most one build of a graph id is in flight; while it
\* is, it is the one recorded in initializing, and every getCache call of
\* the graph id that waits for an unfinished build waits for that one.
C4_SingleFlightBuild ==
  \A graphId \in SvGraphIds :
    /\ Cardinality(SvInFlight(graphId)) <= 1
    /\ \A b \in SvInFlight(graphId) : svInitializing[graphId] = <<b>>
    /\ \A c \in SvCallerIds :
         (/\ svCallers[c].pc = "awaiting"
          /\ svCallers[c].graphId = graphId
          /\ svBuilds[svCallers[c].build].state = "fetching")
           => svCallers[c].build \in SvInFlight(graphId)

\* C4 witness: two getCache calls wait for the same unfinished build
C4_Witness ==
  \E b \in 1..Len(svBuilds) :
    /\ svBuilds[b].state = "fetching"
    /\ Cardinality(SvAwaiting(b)) >= 2

\* a getCache call starts in this step and is answered from the cache entry
SvServedFromCache(c) ==
  /\ svCallers[c].pc = "idle"
  /\ svCallers'[c].pc = "returned"
  /\ svCallers'[c].result # <<>>

\* a getCache call starts in this step and joins the build in flight
SvJoinsInFlight(c) ==
  /\ svCallers[c].pc = "idle"
  /\ svCallers'[c].pc = "awaiting"
  /\ svCallers'[c].build <= Len(svBuilds)

\* C30: a getCache(graphId) call that resolves, resolves to a defined cache
\* of graphId, whatever invalidateCache and clearAllCaches calls and other
\* getCache calls awaiting the same build run in between.
C30_GetCacheResolvesDefined ==
  \A c \in SvCallerIds :
    svCallers[c].pc = "returned" =>
      /\ svCallers[c].result # <<>>
      /\ svStore[svCallers[c].graphId] # <<>>

\* C11: a getCache call that starts after an invalidation of its graph id
\* has returned is served by a cache built from a graph fetched after that
\* invalidation, also when a build was in flight when it happened: it is
\* neither answered from an entry stored by a build whose fetch began before
\* the invalidation nor joined to such a build.
C11_InvalidationTakesEffect ==
  [][\A c \in SvCallerIds :
       /\ SvServedFromCache(c) =>
            ~svBuilds[SvCacheBuild(svCallers'[c].graphId)].stale
       /\ SvJoinsInFlight(c) => ~svBuilds[svCallers'[c].build].stale]_vars

\* a build that just failed, in a step
SvFailsNow(b) ==
  /\ b <= Len(svBuilds)
  /\ svBuilds[b].state = "fetching"
  /\ svBuilds'[b].state = "rejected"

\* a getCache call that starts waiting, in a step
SvStartsWaiting(c) ==
  /\ svCallers[c].pc = "idle"
  /\ svCallers'[c].pc = "awaiting"

\* C10, the states: a caller that waited for a failed build is never given a
\* cache; a failed build has stored nothing; initializing never names a
\* build that is over.
C10_FailedBuildState ==
  /\ \A c \in SvCallerIds :
       (svCallers[c].build # 0
        /\ svBuilds[svCallers[c].build].state = "rejected")
         => svCallers[c].pc \in {"awaiting", "rejected"}
  /\ \A b \in 1..Len(svBuilds) :
       svBuilds[b].state = "rejected" => ~svBuilds[b].stored
  /\ \A graphId \in SvGraphIds :
       svInitializing[graphId] # <<>> =>
         svBuilds[svInitializing[graphId][1]].state = "fetching"

\* C10, the steps: the step in which a build fails leaves the caches as they
\* were and removes the graph id from initializing; a getCache call that
\* starts waiting waits for a build that is not over, a new one unless one
\* is in flight.
C10_FailedBuildStep ==
  /\ \A b \in 1..MaxCallers :
       SvFailsNow(b) =>
         /\ svCaches' = svCaches
         /\ svInitializing'[svBuilds[b].graphId] = <<>>
  /\ \A c \in SvCallerIds :
       SvStartsWaiting(c) =>
         /\ svBuilds'[svCallers'[c].build].state = "fetching"
         /\ SvInFlight(svCallers'[c].graphId) = {}
              => svCallers'[c].build = Len(svBuilds) + 1

\* C10, the delivery: a caller waiting for a build that failed is rejected in
\* the end
C10_FailureDelivered ==
  \A c \in SvCallerIds :
    (/\ svCallers[c].pc = "awaiting"
     /\ svBuilds[svCallers[c].build].state = "rejected")
      ~> (svCallers[c].pc = "rejected")

\* C10: when a build fails, the failure is what every caller waiting for it
\* gets, the build stores no cache entry, the graph id leaves initializing,
\* and the next getCache call of the graph id starts a new build.
C10_FailedBuildNotReused ==
  /\ [](C10_FailedBuildState)
  /\ [][C10_FailedBuildStep]_vars
  /\ C10_FailureDelivered

\* C10 witness: a build failed, two callers that waited for it were rejected,
\* and a later getCache call of the same graph id started a new build
C10_Witness ==
  \E b1, b2 \in 1..Len(svBuilds) :
    /\ b1 < b2
    /\ svBuilds[b1].graphId = svBuilds[b2].graphId
    /\ svBuilds[b1].state = "rejected"
    /\ Cardinality({c \in SvCallerIds :
         svCallers[c].build = b1 /\ svCallers[c].pc = "rejected"}) >= 2
    /\ svCaches[svBuilds[b1].graphId] = <<>>

----------------------------------------------------------------------------
(* The index caches of the explorer and of the storage layer:              *)
(* NodeLookup.getIndexForGraph (node-lookup.ts:227-246) and                *)
(* GraphStorage.getIndexedGraph (part_002:486-505).  An action is the code *)
(* between two awaits.                                                     *)

MaxLookupCallers == 3   \* calls of the two methods in a run

LkGraphIds == {"g1", "g2"}

LkCallerIds == 1..MaxLookupCallers

IdleLookupCaller ==
  [method |-> "", pc |-> "idle", graphId |-> "", during |-> {},
   result |-> <<>>]

InitLookup ==
  /\ lkStore \in [LkGraphIds -> {<<>>, <<SvGraph>>}]
  /\ graphIndexCache = [g \in LkGraphIds |-> <<>>]
  /\ indexCache = [g \in LkGraphIds |-> <<>>]
  /\ lkCallers = [c \in LkCallerIds |-> IdleLookupCaller]

IdleLookup ==
  /\ lkStore = [g \in LkGraphIds |-> <<>>]
  /\ graphIndexCache = [g \in LkGraphIds |-> <<>>]
  /\ indexCache = [g \in LkGraphIds |-> <<>>]
  /\ lkCallers = [c \in {} |-> IdleLookupCaller]

LkNextCaller ==
  CHOOSE c \in LkCallerIds :
    /\ lkCallers[c].pc = "idle"
    /\ \A d \in LkCallerIds : lkCallers[d].pc = "idle" => c <= d

\* the calls of a method whose fetch of the graph is under way
LkFetching(method, graphId) ==
  {c \in LkCallerIds :
     /\ lkCallers[c].method = method
     /\ lkCallers[c].graphId = graphId
     /\ lkCallers[c].pc = "fetching"}

\* a call up to its await: the cached index is returned, else the fetch of
\* the graph starts.  An index object is told from an equal one by the call
\* that built it.
LkCall(method, cache) ==
  /\ \E c \in LkCallerIds : lkCallers[c].pc = "idle"
  /\ \E graphId \in LkGraphIds :
       LET c == LkNextCaller
       IN lkCallers' = [lkCallers EXCEPT ![c] =
            IF cache[graphId] # <<>>
            THEN [method |-> method, pc |-> "returned", graphId |-> graphId,
                  during |-> {}, result |-> cache[graphId]]
            ELSE [method |-> method, pc |-> "fetching", graphId |-> graphId,
                  during |-> LkFetching(method, graphId), result |-> <<>>]]

\* NodeLookup.getIndexForGraph, lines 228-232
GiCall ==
  /\ LkCall("getIndexForGraph", graphIndexCache)
  /\ UNCHANGED <<lkStore, graphIndexCache, indexCache>>
  /\ UNCHANGED lkOthers

\* NodeLookup.getIndexForGraph after its await, lines 232-245; a fetch that
\* throws rejects the call
GiFetched ==
  /\ \E c \in LkCallerIds, fetch \in {"answers", "throws"} :
       LET graphId == lkCallers[c].graphId
           graph == lkStore[graphId]
       IN /\ lkCallers[c].method = "getIndexForGraph"
          /\ lkCallers[c].pc = "fetching"
          /\ IF fetch = "throws"
             THEN /\ lkCallers' = [lkCallers EXCEPT ![c].pc = "rejected"]
                  /\ UNCHANGED graphIndexCache
             ELSE IF graph = <<>>
             THEN /\ lkCallers' = [lkCallers EXCEPT ![c].pc = "returned"]
                  /\ UNCHANGED graphIndexCache
             ELSE LET nodeIndex_ == [index |-> BuildNodeMap(graph[1]),
                                     builtBy |-> c]
                  IN /\ graphIndexCache' =
                          [graphIndexCache EXCEPT ![graphId] = <<nodeIndex_>>]
                     /\ lkCallers' = [lkCallers EXCEPT
                          ![c].pc = "returned", ![c].result = <<nodeIndex_>>]
  /\ UNCHANGED <<lkStore, indexCache>>
  /\ UNCHANGED lkOthers

\* NodeLookup.clearGraphCache, lines 220-222
GiClearGraphCache ==
  /\ \E graphId \in LkGraphIds :
       graphIndexCache' = [graphIndexCache EXCEPT ![graphId] = <<>>]
  /\ graphIndexCache' # graphIndexCache
  /\ UNCHANGED <<lkStore, indexCache, lkCallers>>
  /\ UNCHANGED lkOthers

\* GraphStorage.getIndexedGraph, lines 487-493
IgCall ==
  /\ LkCall("getIndexedGraph", indexCache)
  /\ UNCHANGED <<lkStore, graphIndexCache, indexCache>>
  /\ UNCHANGED lkOthers

\* GraphStorage.getIndexedGraph after its await, lines 493-504; this
\* getGraph (part_002:279-299) turns every error into null
IgFetched ==
  /\ \E c \in LkCallerIds :
       LET graphId == lkCallers[c].graphId
           graph == lkStore[graphId]
       IN /\ lkCallers[c].method = "getIndexedGraph"
          /\ lkCallers[c].pc = "fetching"
          /\ IF graph = <<>>
             THEN /\ lkCallers' = [lkCallers EXCEPT ![c].pc = "returned"]
                  /\ UNCHANGED indexCache
             ELSE LET nodeIndex_ == [index |-> NiBuildIndexes(graph[1]),
                                     builtBy |-> c]
                  IN /\ indexCache' =
                          [indexCache EXCEPT ![graphId] = <<nodeIndex_>>]
                     /\ lkCallers' = [lkCallers EXCEPT
                          ![c].pc = "returned", ![c].result = <<nodeIndex_>>]
  /\ UNCHANGED <<lkStore, graphIndexCache>>
  /\ UNCHANGED lkOthers

\* GraphStorage.clearGraphCache, part_002:510-512
IgClearGraphCache ==
  /\ \E graphId \in LkGraphIds :
       indexCache' = [indexCache EXCEPT ![graphId] = <<>>]
  /\ indexCache' # indexCache
  /\ UNCHANGED <<lkStore, graphIndexCache, lkCallers>>
  /\ UNCHANGED lkOthers

\* GraphStorage.clearAllCaches, part_002:517-519
IgClearAllCaches ==
  /\ indexCache' = [g \in LkGraphIds |-> <<>>]
  /\ indexCache' # indexCache
  /\ UNCHANGED <<lkStore, graphIndexCache, lkCallers>>
  /\ UNCHANGED lkOthers

NextLookup ==
  \/ GiCall \/ GiFetched \/ GiClearGraphCache
  \/ IgCall \/ IgFetched \/ IgClearGraphCache \/ IgClearAllCaches

(* Claims about the index caches *)

\* C5: calls of getIndexForGraph (of getIndexedGraph) for the same graph id
\* that overlap share one build: at most one fetch of the graph is under way
\* for the graph id, and a call that began while another was fetching
\* returns the very index that one produced.
C5_IndexBuildShared ==
  /\ \A method \in {"getIndexForGraph", "getIndexedGraph"},
        graphId \in LkGraphIds :
       Cardinality(LkFetching(method, graphId)) <= 1
  /\ \A c \in LkCallerIds : \A first \in lkCallers[c].during :
       (/\ lkCallers[c].pc = "returned" /\ lkCallers[c].result # <<>>
        /\ lkCallers[first].pc = "returned" /\ lkCallers[first].result # <<>>)
         => lkCallers[c].result = lkCallers[first].result

-----------------------------------------------------------------------------
(* The entry points of GraphExplorer and DependencyAnalyzer, from the call  *)
(* to the point where node and graph are in hand.  exploreGraph,           *)
(* getNodeDetails, findPath and findDependencies resolve their node        *)
(* queries through nodeLookup.findNode and fetch the graph afterwards;     *)
(* getGraphStatistics and findCircularDependencies fetch the graph first.  *)
(* nodeLookup keeps its own index cache, which nothing clears when a graph *)
(* is deleted (part_002:612).                                              *)

EpLookupOps == {"exploreGraph", "getNodeDetails", "findPath",
                "findDependencies"}

EpGraphOps == {"getGraphStatistics", "findCircularDependencies"}

EpGraphs ==
  { [nodes |-> ExNodeList, edges |-> <<Edge(NodeA.id, NodeB.id, "CALLS")>>],
    [nodes |-> <<NodeC>>, edges |-> <<>>],
    [nodes |-> <<>>, edges |-> <<>>] }

EpQueries == {<<"A">>, <<"k">>, <<"z">>}

\* the node queries of a call, in the order the entry point resolves them
EpCalls ==
  {[op |-> op, queries |-> <<q>>] :
     op \in EpLookupOps \ {"findPath"}, q \in EpQueries}
  \cup {[op |-> "findPath", queries |-> <<q1, q2>>] :
          q1 \in EpQueries, q2 \in EpQueries}
  \cup {[op |-> op, queries |-> <<>>] : op \in EpGraphOps}

EpIdleCall ==
  [op |-> "", queries |-> <<>>, pc |-> "idle", pending |-> <<>>,
   found |-> <<>>, result |-> <<>>]

\* the cache holds nothing, or the index of the stored graph, or still the
\* index of a graph deleted since
InitEntry ==
  /\ epStore \in {<<>>} \cup {<<g>> : g \in EpGraphs}
  /\ epIndexCache \in
       {<<>>} \cup (IF epStore # <<>> THEN {<<BuildNodeMap(epStore[1])>>}
                    ELSE {<<BuildNodeMap(g)>> : g \in EpGraphs})
  /\ epCall = EpIdleCall

IdleEntry ==
  /\ epStore = <<>>
  /\ epIndexCache = <<>>
  /\ epCall = EpIdleCall

\* NodeLookup.getIndexForGraph, lines 227-246: the index, or <<>> for null
EpGetIndexForGraph(cache, store) ==
  IF cache # <<>> THEN cache
  ELSE IF store = <<>> THEN <<>>
  ELSE <<BuildNodeMap(store[1])>>

\* NodeLookup.findNode over that index, lines 52-76
EpFindNodeIn(index, nodeQuery) ==
  IF index = <<>> THEN <<>> ELSE LookupFindNode(index[1], nodeQuery)

\* Mutant: findPath looking at fromNode only
EpNodeMissingFirstOnly(found) == found[1] = <<>>

\* if (!startNode), if (!node), if (!fromNode || !toNode)
EpNodeMissing(found) == \E i \in 1..Len(found) : found[i] = <<>>

\* what each entry point returns when a node is not found (lines 55-62,
\* 331-336, 444-449, 705-711); null is <<>>
EpNotFoundResult(op) ==
  CASE op = "exploreGraph" ->
         [nodes |-> <<>>, edges |-> <<>>, rootId |-> <<>>,
          exploredDepth |-> 0, truncated |-> FALSE, totalNodesCount |-> 0]
    [] op = "getNodeDetails" ->
         [node |-> <<>>, incomingEdges |-> <<>>, outgoingEdges |-> <<>>,
          siblings |-> <<>>]
    [] op = "findPath" ->
         [path |-> <<>>, edges |-> <<>>, length |-> 0, found |-> FALSE]
    [] op = "findDependencies" ->
         [nodeInfo |-> <<>>, incoming |-> <<>>, outgoing |-> <<>>,
          directDependencies |-> 0, transitiveDependencies |-> 0]

\* throw new Error(`Graph not found: ${graphId}`)
EpGraphNotFound == [error |-> "Graph not found"]

\* the call, up to its first await
EpCallStart ==
  /\ epCall.pc = "idle"
  /\ \E call \in EpCalls :
       epCall' = [epCall EXCEPT
                    !.op = call.op, !.queries = call.queries,
                    !.pending = call.queries,
                    !.pc = IF call.op \in EpLookupOps THEN "findNode"
                           ELSE "getGraph"]
  /\ UNCHANGED <<epStore, epIndexCache>>
  /\ UNCHANGED epOthers

\* await nodeLookup.findNode(graphId, query) and what follows it up to the
\* next await: the next findNode, the not-found return, or getGraph
EpFindNode ==
  /\ epCall.pc = "findNode"
  /\ LET index == EpGetIndexForGraph(epIndexCache, epStore)
         found == Append(epCall.found,
                         EpFindNodeIn(index, Head(epCall.pending)))
     IN /\ epIndexCache' = index
        /\ epCall' =
             IF Len(epCall.pending) > 1
             THEN [epCall EXCEPT !.pending = Tail(@), !.found = found]
             ELSE IF EpNodeMissing(found)
             THEN [epCall EXCEPT !.pending = <<>>, !.found = found,
                                 !.pc = "returned",
                                 !.result = EpNotFoundResult(epCall.op)]
             ELSE [epCall EXCEPT !.pending = <<>>, !.found = found,
                                 !.pc = "getGraph"]
  /\ UNCHANGED epStore
  /\ UNCHANGED epOthers

\* await this.storage.getGraph(graphId) and the test of its answer; with
\* the graph in hand the call goes on to its traversal
EpGetGraph ==
  /\ epCall.pc = "getGraph"
  /\ epCall' =
       IF epStore = <<>>
       THEN [epCall EXCEPT !.pc = "thrown", !.result = EpGraphNotFound]
       ELSE [epCall EXCEPT !.pc = "traversal",
                           !.result = [graph |-> epStore[1]]]
  /\ UNCHANGED <<epStore, epIndexCache>>
  /\ UNCHANGED epOthers

NextEntry == EpCallStart \/ EpFindNode \/ EpGetGraph

\* the call has come to its not-found return, its throw or its traversal
EpOver == epCall.pc \in {"returned", "thrown", "traversal"}

\* C12: for a graph id unknown to the store every entry point (exploreGraph,
\* getNodeDetails, findDependencies, findPath, findCircularDependencies,
\* getGraphStatistics) ends in a graph-not-found error; none returns an
\* empty or null result.
C12_UnknownGraphThrows ==
  (epStore = <<>> /\ EpOver) =>
    (epCall.pc = "thrown" /\ epCall.result = EpGraphNotFound)

\* a node query of the call matches no node of the stored graph
EpNoMatch ==
  /\ epStore # <<>>
  /\ \E i \in 1..Len(epCall.queries) :
       LookupFindNode(BuildNodeMap(epStore[1]), epCall.queries[i]) = <<>>

\* C14: when the graph exists and a node query matches no node, exploreGraph
\* returns no nodes and a null rootId, findPath returns found = false, and
\* findDependencies returns nodeInfo = null with zero counts; none throws.
C14_NoMatchReturnsEmpty ==
  (EpNoMatch /\ EpOver) =>
    /\ epCall.pc = "returned"
    /\ epCall.op = "exploreGraph" =>
         /\ epCall.result.nodes = <<>>
         /\ epCall.result.rootId = <<>>
    /\ epCall.op = "findPath" =>
         /\ epCall.result.found = FALSE
         /\ epCall.result.path = <<>>
    /\ epCall.op = "findDependencies" =>
         /\ epCall.result.nodeInfo = <<>>
         /\ epCall.result.directDependencies = 0
         /\ epCall.result.transitiveDependencies = 0

\* C14 witness: findPath returned found = false with the first node found
\* and the second not
C14_Witness ==
  /\ EpNoMatch
  /\ epCall.op = "findPath"
  /\ epCall.pc = "returned"
  /\ epCall.found[1] # <<>>
  /\ epCall.found[2] = <<>>

-----------------------------------------------------------------------------
(* Building an index from a graph as read from storage.  The graph is the  *)
(* parsed JSON of a file (part_002:592-606), cast to KnowledgeGraph        *)
(* unchecked, so a collection may be missing from it; reading a property   *)
(* of the missing collection, or iterating it, throws a TypeError.         *)

\* the well-formed graphs, and each of them without nodes or without edges
BdGraphs ==
  LET base == {g \in IxGraphs : Len(g.nodes) < MaxIxNodes}
  IN base \cup {[f \in {"edges"} |-> g[f]] : g \in base}
          \cup {[f \in {"nodes"} |-> g[f]] : g \in base}

BdBuilders == {"getIndexedGraph", "initializeCache", "EnhancedNodeIndex"}

InitBuild ==
  /\ bdGraph \in BdGraphs
  /\ bdIndexCache = <<>>
  /\ bdCaches = <<>>
  /\ bdEnhanced = <<>>
  /\ bdDone = {}
  /\ bdThrew = {}

IdleBuild ==
  /\ bdGraph = [nodes |-> <<>>, edges |-> <<>>]
  /\ bdIndexCache = <<>>
  /\ bdCaches = <<>>
  /\ bdEnhanced = <<>>
  /\ bdDone = {}
  /\ bdThrew = {}

\* graph.nodes.length and for (const node of graph.nodes) need the nodes
BdReadsNodes(graph) == "nodes" \in DOMAIN graph

\* for (const edge of graph.edges) needs the edges
BdReadsEdges(graph) == "edges" \in DOMAIN graph

\* what NodeIndex.buildIndexes reads of the graph, lines 250-297
BdNodeIndexNeeds(graph) == BdReadsNodes(graph)

\* what the build in initializeCache reads of the graph, lines 431-465
BdCacheNeeds(graph) == BdReadsNodes(graph)

\* what EnhancedNodeIndex.buildIndexes reads of the graph, lines 71-108
BdEnhancedNeeds(graph) == BdReadsNodes(graph) /\ BdReadsEdges(graph)

\* GraphStorage.getIndexedGraph after its fetch, part_002:493-504
BdGetIndexedGraph ==
  /\ "getIndexedGraph" \notin bdDone
  /\ bdDone' = bdDone \cup {"getIndexedGraph"}
  /\ IF BdNodeIndexNeeds(bdGraph)
     THEN /\ bdIndexCache' = <<NiBuildIndexes(bdGraph)>>
          /\ UNCHANGED bdThrew
     ELSE /\ bdThrew' = bdThrew \cup {"getIndexedGraph"}
          /\ UNCHANGED bdIndexCache
  /\ UNCHANGED <<bdGraph, bdCaches, bdEnhanced>>
  /\ UNCHANGED bdOthers

\* NodeLookupService.initializeCache after its fetch, lines 421-472
BdInitializeCache ==
  /\ "initializeCache" \notin bdDone
  /\ bdDone' = bdDone \cup {"initializeCache"}
  /\ IF BdCacheNeeds(bdGraph)
     THEN /\ bdCaches' = <<BuildNodeCache(bdGraph, 0)>>
          /\ UNCHANGED bdThrew
     ELSE /\ bdThrew' = bdThrew \cup {"initializeCache"}
          /\ UNCHANGED bdCaches
  /\ UNCHANGED <<bdGraph, bdIndexCache, bdEnhanced>>
  /\ UNCHANGED bdOthers

\* new EnhancedNodeIndex(graph), part_006:63-111
BdNewEnhancedNodeIndex ==
  /\ "EnhancedNodeIndex" \notin bdDone
  /\ bdDone' = bdDone \cup {"EnhancedNodeIndex"}
  /\ IF BdEnhancedNeeds(bdGraph)
     THEN /\ bdEnhanced' = <<EnBuildIndexes(bdGraph)>>
          /\ UNCHANGED bdThrew
     ELSE /\ bdThrew' = bdThrew \cup {"EnhancedNodeIndex"}
          /\ UNCHANGED bdEnhanced
  /\ UNCHANGED <<bdGraph, bdIndexCache, bdCaches>>
  /\ UNCHANGED bdOthers

NextBuild == BdGetIndexedGraph \/ BdInitializeCache \/ BdNewEnhancedNodeIndex

\* C13: building an index from a graph without a nodes collection or without
\* an edges collection fails with an error at build time, and no index or
\* cache entry of the graph becomes observable.
C13_MalformedGraphNotIndexed ==
  ~(BdReadsNodes(bdGraph) /\ BdReadsEdges(bdGraph)) =>
    /\ bdDone \subseteq bdThrew
    /\ bdIndexCache = <<>>
    /\ bdCaches = <<>>
    /\ bdEnhanced = <<>>

-----------------------------------------------------------------------------
(* The searches by query: NodeIndex.findNodes over the index of a graph    *)
(* and NodeLookup.findNodes over the node map of the same graph.  Neither  *)
(* changes the index, so one call is looked at.  Scores are in hundredths. *)

\* the queries: a name as written and in another case, an id that is also a
\* name, a file path and a part of one, misspelt names that share one
\* trigram of two, of three and of four with a name, and one that matches
\* nothing
FnQueries ==
  {<<"f", "o", "o">>, <<"F", "o", "o">>, <<"x">>, FileA,
   <<".", "t", "s">>, <<"f", "o", "o", "b">>, <<"F", "o", "o", "o">>,
   <<"f", "o", "o", "x", "y">>, <<"f", "o", "o", "x", "y", "z">>, <<"q">>}

\* maxResults as passed: absent, or a number
FnMaxResults == {<<>>} \cup {<<n>> : n \in 0..MaxIxNodes}

FnNodeTypes == {<<>>, <<TypeFunction>>}

InitFind ==
  /\ fnGraph \in {[nodes |-> l, edges |-> <<>>] : l \in IxNodeLists}
  /\ fnIndex = NiBuildIndexes(fnGraph)
  /\ fnFound = <<>>

IdleFind ==
  /\ fnGraph = [nodes |-> <<>>, edges |-> <<>>]
  /\ fnIndex = EmptyNodeIndex
  /\ fnFound = <<>>

\* a caller's nodeIndex.findNodes(query, {nodeType, maxResults, includeFuzzy})
FnFindNodesCall ==
  /\ fnFound = <<>>
  /\ \E q \in FnQueries, nodeType \in FnNodeTypes,
        maxResults \in FnMaxResults, includeFuzzy \in BOOLEAN :
       fnFound' = <<[on |-> "NodeIndex", query |-> q, nodeType |-> nodeType,
                     maxResults |-> maxResults,
                     includeFuzzy |-> includeFuzzy,
                     results |-> NiFindNodes(fnIndex, q, nodeType,
                                             maxResults, includeFuzzy)]>>
  /\ UNCHANGED <<fnGraph, fnIndex>>
  /\ UNCHANGED fnOthers

\* a caller's nodeLookup.findNodes(graphId, query, {maxResults,
\* includeFuzzy}), the index of the graph in hand; maxResults 1 is findNode
FnLookupFindNodesCall ==
  /\ fnFound = <<>>
  /\ \E q \in FnQueries, maxResults \in FnMaxResults,
        includeFuzzy \in BOOLEAN :
       fnFound' = <<[on |-> "NodeLookup", query |-> q, nodeType |-> <<>>,
                     maxResults |-> maxResults,
                     includeFuzzy |-> includeFuzzy,
                     results |->
                       LookupFindNodes(BuildNodeMap(fnGraph), q,
                         IF maxResults = <<>> THEN 0 ELSE maxResults[1],
                         includeFuzzy)]>>
  /\ UNCHANGED <<fnGraph, fnIndex>>
  /\ UNCHANGED fnOthers

NextFind == FnFindNodesCall \/ FnLookupFindNodesCall

(* Claims about the searches by query *)

\* the id the node has in the graph
FnOriginalId(node) ==
  IF "originalId" \in DOMAIN node THEN node.originalId ELSE node.id

\* where the node stands in graph.nodes
FnPosition(node) ==
  CHOOSE k \in 1..Len(fnGraph.nodes) : fnGraph.nodes[k].id = FnOriginalId(node)

\* the limit of the call
FnLimit(call) ==
  IF call.maxResults = <<>> THEN DefaultMaxResults ELSE call.maxResults[1]

\* C15: NodeIndex.findNodes returns each node id at most once, in
\* non-increasing score order, at most maxResults entries, each with the
\* score of its highest matching tier: 1.0 for a match of the canonical or
\* original id, and 0.9 for a node that matches the query by its name only.
C15_FindNodesTiers ==
  (fnFound # <<>> /\ fnFound[1].on = "NodeIndex") =>
    LET call == fnFound[1]
        r == call.results
    IN /\ \A i, j \in 1..Len(r) : i # j => r[i].node.id # r[j].node.id
       /\ \A i, j \in 1..Len(r) : i < j => r[i].score >= r[j].score
       /\ Len(r) <= FnLimit(call)
       /\ \A i \in 1..Len(r) :
            LET idMatch == \/ call.query = r[i].node.id
                           \/ call.query = FnOriginalId(r[i].node)
                nameMatch == ToLowerCase(r[i].node.name)
                               = ToLowerCase(call.query)
            IN /\ idMatch => r[i].score = 100
               /\ (nameMatch /\ ~idMatch) => r[i].score = 90

\* C17: among results of equal score an exported node stands before every
\* non-exported one, and otherwise the nodes stand in the order of the
\* graph; the single best match (maxResults 1) is chosen the same way.
C17_TieBreakExported ==
  fnFound # <<>> =>
    LET call == fnFound[1]
        r == call.results
        all == IF call.on = "NodeIndex"
               THEN NiFindNodes(fnIndex, call.query, call.nodeType, <<>>,
                                call.includeFuzzy)
               ELSE LookupFindNodes(BuildNodeMap(fnGraph), call.query, 0,
                                    call.includeFuzzy)
    IN /\ \A i, j \in 1..Len(r) :
            (i < j /\ r[i].score = r[j].score) =>
              /\ r[j].node.isExported => r[i].node.isExported
              /\ r[i].node.isExported = r[j].node.isExported =>
                   FnPosition(r[i].node) < FnPosition(r[j].node)
       /\ \A i \in 1..Len(r), k \in 1..Len(all) :
            (i = Len(r) /\ all[k].score = r[i].score
               /\ all[k].node.isExported /\ ~r[i].node.isExported) =>
              \E j \in 1..Len(r) : r[j].node.id = all[k].node.id

\* a findNodes call of the index with the fuzzy tier open
FnFuzzyCall ==
  /\ fnFound # <<>>
  /\ fnFound[1].on = "NodeIndex"
  /\ fnFound[1].includeFuzzy
  /\ Len(fnFound[1].query) >= 3

\* the distinct trigrams of the lowercased text
FnTrigrams(text) ==
  {SubSeq(ToLowerCase(text), i, i + 2) : i \in 1..(Len(text) - 2)}

\* how many distinct trigrams of the query occur in the lowercased name
FnOverlap(query, name) ==
  Cardinality(FnTrigrams(query) \cap FnTrigrams(name))

\* the nodes of the index a tier above the fuzzy one matches, whatever their
\* type
FnHigherTier(query) ==
  LET r == NiFindNodes(fnIndex, query, <<>>, <<Len(fnGraph.nodes) + 1>>, FALSE)
  IN {r[i].node.id : i \in 1..Len(r)}

\* the fuzzy entries of the result that carry the node
FnFuzzyEntries(call, node) ==
  {i \in 1..Len(call.results) :
     /\ call.results[i].node.id = node.id
     /\ call.results[i].reason = "fuzzy"}

\* the entry of a fuzzy match scores (overlap / query trigram count) x 0.6,
\* in hundredths
FnFuzzyScored(call, node) ==
  \A i \in FnFuzzyEntries(call, node) :
    call.results[i].score * Cardinality(FnTrigrams(call.query))
      = 60 * FnOverlap(call.query, node.name)

\* at least 30% of the query's trigrams occur in the name
FnOverlapEnough(call, node) ==
  10 * FnOverlap(call.query, node.name)
    >= 3 * Cardinality(FnTrigrams(call.query))

\* C24 as stated: with fuzzy matching enabled and a query of length >= 3, a
\* node no higher tier matches is returned as a fuzzy match if and only if
\* at least 30% of the distinct trigrams of the query occur in its
\* lowercased name, and its score is (overlap / query trigram count) x 0.6.
C24_FuzzyIffOverlap ==
  FnFuzzyCall =>
    LET call == fnFound[1]
    IN \A k \in 1..Len(fnIndex.nodes) :
         LET node == fnIndex.nodes[k][2]
         IN node.id \notin FnHigherTier(call.query) =>
              /\ FnFuzzyEntries(call, node) # {}
                   <=> FnOverlapEnough(call, node)
              /\ FnFuzzyScored(call, node)

\* C24 amended: every fuzzy match has at least 30% of the query's distinct
\* trigrams in its lowercased name and scores (overlap / query trigram
\* count) x 0.6; and a node no higher tier matches that has that overlap and
\* the nodeType asked for is returned as a fuzzy match unless the result
\* already holds maxResults entries.
C24_FuzzyIffOverlapOfTypeWithinLimit ==
  FnFuzzyCall =>
    LET call == fnFound[1]
    IN \A k \in 1..Len(fnIndex.nodes) :
         LET node == fnIndex.nodes[k][2]
         IN node.id \notin FnHigherTier(call.query) =>
              /\ FnFuzzyEntries(call, node) # {}
                   => FnOverlapEnough(call, node)
              /\ (/\ FnOverlapEnough(call, node)
                  /\ NiMatchesType(node, call.nodeType)
                  /\ Len(call.results) < FnLimit(call))
                   => FnFuzzyEntries(call, node) # {}
              /\ FnFuzzyScored(call, node)

\* C24 witness: the query "Fooo" returns a node named foo as a fuzzy match
\* of score 0.3
C24_Witness ==
  /\ FnFuzzyCall
  /\ fnFound[1].query = <<"F", "o", "o", "o">>
  /\ \E i \in 1..Len(fnFound[1].results) :
       /\ fnFound[1].results[i].node.name = <<"f", "o", "o">>
       /\ fnFound[1].results[i].reason = "fuzzy"
       /\ fnFound[1].results[i].score = 30

-----------------------------------------------------------------------------
(* SearchIndex (part_004:154-942): search, performSemanticSearch and       *)
(* advancedSearch over the index of a graph.  A score is a JavaScript      *)
(* number; the sums, quotients and products the code forms of 1.0, 1.5,    *)
(* 0.8, 0.3, 0.5 and string similarities are kept exact as fractions       *)
(* [n, d], d = 0 being NaN.  metadata is <<>> when the node has none, else *)
(* <<map>>; the calls pass no sortBy, threshold or includeContext.         *)

\* TRUE for every value.  A loop tests it on what it has accumulated so far,
\* which makes TLC compute that value at this step of the loop instead of
\* keeping every step suspended until the last one.
Evaluated(v) == v = v

RECURSIVE Gcd(_, _)
Gcd(a, b) == IF b = 0 THEN a ELSE Gcd(b, a % b)

Ratio(n, d) ==
  IF d = 0 THEN [n |-> 0, d |-> 0]
  ELSE [n |-> n \div Gcd(n, d), d |-> d \div Gcd(n, d)]

RAdd(a, b) == Ratio(a.n * b.d + b.n * a.d, a.d * b.d)

RMul(a, b) == Ratio(a.n * b.n, a.d * b.d)

\* a > b; false when either is NaN
RGreater(a, b) == a.d # 0 /\ b.d # 0 /\ a.n * b.d > b.n * a.d

RZero == Ratio(0, 1)

\* tokenize, lines 615-622: lower case, every character that is neither a
\* word character nor white space becomes a blank, split at white space,
\* the terms of more than one character kept
RECURSIVE SiTokensFrom(_, _, _)
SiTokensFrom(text, i, term) ==
  LET done == IF Len(term) > 1 THEN <<term>> ELSE <<>>
  IN IF i > Len(text) THEN done
     ELSE IF text[i] \in WordChars
     THEN SiTokensFrom(text, i + 1, Append(term, LowerChar(text[i])))
     ELSE done \o SiTokensFrom(text, i + 1, <<>>)

Tokenize(text) == SiTokensFrom(text, 1, <<>>)

\* [...new Set(terms)]
RECURSIVE SiDistinct(_, _)
SiDistinct(seen, terms) ==
  IF terms = <<>> \/ ~Evaluated(seen) THEN seen
  ELSE SiDistinct(SAdd(seen, Head(terms)), Tail(terms))

Documentation ==
  <<"d", "o", "c", "u", "m", "e", "n", "t", "a", "t", "i", "o", "n">>

\* the terms of the entries of metadata, lines 603-610: the key in lower
\* case and the terms of a string value
RECURSIVE SiPropertyTerms(_)
SiPropertyTerms(entries) ==
  IF entries = <<>> THEN <<>>
  ELSE <<ToLowerCase(Head(entries)[1])>> \o Tokenize(Head(entries)[2])
         \o SiPropertyTerms(Tail(entries))

\* extractSearchTerms, lines 580-613
ExtractSearchTerms(node) ==
  LET nameTerms == Tokenize(node.name)
      typeTerm == <<ToLowerCase(node.type)>>
      doc == IF node.metadata = <<>> THEN <<>>
             ELSE MGet(node.metadata[1], Documentation)
      docTerms == IF doc = <<>> THEN <<>> ELSE Tokenize(doc[1])
      parts == Split(node.file, "/")
      fileTerms == IF node.file = <<>> THEN <<>>
                   ELSE Tokenize(parts[Len(parts)])
      propertyTerms == IF node.metadata = <<>> THEN <<>>
                       ELSE SiPropertyTerms(node.metadata[1])
  IN SiDistinct(<<>>, nameTerms \o typeTerm \o docTerms \o fileTerms
                        \o propertyTerms)

\* buildIndex, lines 163-201
RECURSIVE SiIndexTerms(_, _, _)
SiIndexTerms(termIndex, terms, nodeId) ==
  IF terms = <<>> \/ ~Evaluated(termIndex) THEN termIndex
  ELSE SiIndexTerms(MAddToSet(termIndex, Head(terms), nodeId), Tail(terms),
                    nodeId)

RECURSIVE SiIndexNodes(_, _, _)
SiIndexNodes(ix, nodes, k) ==
  IF k > Len(nodes) \/ ~Evaluated(ix) THEN ix
  ELSE SiIndexNodes(
         [ix EXCEPT
            !.nodeIndex = MSet(@, nodes[k].id, nodes[k]),
            !.typeIndex = MPush(@, nodes[k].type, nodes[k]),
            !.termIndex = SiIndexTerms(@, ExtractSearchTerms(nodes[k]),
                                       nodes[k].id)],
         nodes, k + 1)

RECURSIVE SiIndexRelations(_, _, _)
SiIndexRelations(ix, edges, k) ==
  IF k > Len(edges) \/ ~Evaluated(ix) THEN ix
  ELSE SiIndexRelations(
         [ix EXCEPT !.relationIndex =
            MPush(@, edges[k].type,
                  [from |-> edges[k].from, to |-> edges[k].to])],
         edges, k + 1)

BuildIndex(graph) ==
  SiIndexRelations(
    SiIndexNodes([nodes |-> graph.nodes, graph |-> graph,
                  termIndex |-> <<>>, nodeIndex |-> <<>>,
                  typeIndex |-> <<>>, relationIndex |-> <<>>],
                 graph.nodes, 1),
    graph.edges, 1)

\* levenshteinDistance, lines 730-755: the row of the matrix for one
\* character of str2, from the row before it
RECURSIVE SiLevRow(_, _, _, _)
SiLevRow(before, str1, c, row) ==
  IF Len(row) = Len(str1) + 1 THEN row
  ELSE LET i == Len(row)
           cost == IF str1[i] = c THEN 0 ELSE 1
           deletion == row[i] + 1
           insertion == before[i + 1] + 1
           substitution == before[i] + cost
           least == IF deletion <= insertion /\ deletion <= substitution
                    THEN deletion
                    ELSE IF insertion <= substitution THEN insertion
                    ELSE substitution
       IN SiLevRow(before, str1, c, Append(row, least))

RECURSIVE SiLevRows(_, _, _, _)
SiLevRows(before, str1, str2, j) ==
  IF j > Len(str2) \/ ~Evaluated(before) THEN before
  ELSE SiLevRows(SiLevRow(before, str1, str2[j], <<j>>), str1, str2, j + 1)

LevenshteinDistance(str1, str2) ==
  SiLevRows([i \in 1..(Len(str1) + 1) |-> i - 1], str1, str2, 1)[Len(str1) + 1]

\* calculateStringSimilarity, lines 721-728
CalculateStringSimilarity(str1, str2) ==
  LET maxLength == IF Len(str1) > Len(str2) THEN Len(str1) ELSE Len(str2)
  IN IF maxLength = 0 THEN Ratio(1, 1)
     ELSE Ratio(maxLength - LevenshteinDistance(str1, str2), maxLength)

\* similarity > 0.7, the fuzzy threshold
SiIsSimilar(similarity) == RGreater(similarity, Ratio(7, 10))

\* score += 0.3 for every term of the node that contains the query term or
\* is contained in it, lines 652-658
RECURSIVE SiPartialSum(_, _, _)
SiPartialSum(score, nodeTerms, queryTerm) ==
  IF nodeTerms = <<>> \/ ~Evaluated(score) THEN score
  ELSE SiPartialSum(IF \/ Includes(Head(nodeTerms), queryTerm)
                       \/ Includes(queryTerm, Head(nodeTerms))
                    THEN RAdd(score, Ratio(3, 10)) ELSE score,
                    Tail(nodeTerms), queryTerm)

\* score += similarity * 0.5 for every similar term of the node, lines
\* 661-670
RECURSIVE SiFuzzySum(_, _, _)
SiFuzzySum(score, nodeTerms, queryTerm) ==
  IF nodeTerms = <<>> \/ ~Evaluated(score) THEN score
  ELSE LET similarity == CalculateStringSimilarity(Head(nodeTerms), queryTerm)
       IN SiFuzzySum(IF SiIsSimilar(similarity)
                     THEN RAdd(score, RMul(similarity, Ratio(1, 2)))
                     ELSE score,
                     Tail(nodeTerms), queryTerm)

\* the body of the loop of calculateScore for one query term, lines 636-671
SiTermScore(score, node, nodeTerms, queryTerm, matchType) ==
  LET exact == IF matchType = "exact" /\ InSeq(queryTerm, nodeTerms)
               THEN RAdd(score, Ratio(1, 1)) ELSE score
      named == IF /\ node.name # <<>>
                  /\ Includes(ToLowerCase(node.name), queryTerm)
               THEN RAdd(exact, Ratio(3, 2)) ELSE exact
      typed == IF Includes(ToLowerCase(node.type), queryTerm)
               THEN RAdd(named, Ratio(4, 5)) ELSE named
      partial == IF matchType = "partial"
                 THEN SiPartialSum(typed, nodeTerms, queryTerm) ELSE typed
  IN IF matchType = "fuzzy" THEN SiFuzzySum(partial, nodeTerms, queryTerm)
     ELSE partial

RECURSIVE SiScoreSum(_, _, _, _, _)
SiScoreSum(score, node, nodeTerms, queryTerms, matchType) ==
  IF queryTerms = <<>> \/ ~Evaluated(score) THEN score
  ELSE SiScoreSum(SiTermScore(score, node, nodeTerms, Head(queryTerms),
                              matchType),
                  node, nodeTerms, Tail(queryTerms), matchType)

\* calculateScore, lines 628-676; the quotient by no query term is NaN
CalculateScore(node, queryTerms, matchType) ==
  RMul(SiScoreSum(RZero, node, ExtractSearchTerms(node), queryTerms,
                  matchType),
       Ratio(1, Len(queryTerms)))

\* getMatchedFields, lines 697-719
RECURSIVE SiMatchedFieldsOf(_, _)
SiMatchedFieldsOf(node, terms) ==
  IF terms = <<>> THEN <<>>
  ELSE LET term == Head(terms)
           doc == IF node.metadata = <<>> THEN <<>>
                  ELSE MGet(node.metadata[1], Documentation)
       IN (IF node.name # <<>> /\ Includes(ToLowerCase(node.name), term)
           THEN <<"name">> ELSE <<>>)
          \o (IF Includes(ToLowerCase(node.type), term)
              THEN <<"type">> ELSE <<>>)
          \o (IF doc # <<>> /\ doc[1] # <<>>
                 /\ Includes(ToLowerCase(doc[1]), term)
              THEN <<"description">> ELSE <<>>)
          \o (IF node.file # <<>> /\ Includes(ToLowerCase(node.file), term)
              THEN <<"filePath">> ELSE <<>>)
          \o SiMatchedFieldsOf(node, Tail(terms))

GetMatchedFields(node, queryTerms) ==
  SiDistinct(<<>>, SiMatchedFieldsOf(node, queryTerms))

\* new RegExp(regexPattern, "i").test(file), lines 768-776: of the pattern
\* "." stands for itself, "*" for any characters, "?" for any one
\* character; the match may begin and end anywhere in the file path
RECURSIVE SiMatchesAt(_, _, _, _)
SiMatchesAt(pattern, p, file, f) ==
  IF p > Len(pattern) THEN TRUE
  ELSE IF pattern[p] = "*"
  THEN \E next \in f..(Len(file) + 1) :
         SiMatchesAt(pattern, p + 1, file, next)
  ELSE /\ f <= Len(file)
       /\ pattern[p] = "?" \/ LowerChar(pattern[p]) = LowerChar(file[f])
       /\ SiMatchesAt(pattern, p + 1, file, f + 1)

SiPatternTest(pattern, file) ==
  \E f \in 1..(Len(file) + 1) : SiMatchesAt(pattern, 1, file, f)

\* this.graph.edges.some(...), lines 808-822; an absent relationType is <<>>
SiHasRequiredRelation(ix, node, relationType, connectedTo) ==
  \E k \in 1..Len(ix.graph.edges) :
    LET edge == ix.graph.edges[k]
    IN /\ relationType = <<>> \/ edge.type = relationType[1]
       /\ edge.from = node.id \/ edge.to = node.id
       /\ connectedTo # <<>> =>
            InSeq(IF edge.from = node.id THEN edge.to ELSE edge.from,
                  connectedTo)

\* Mutant: no filter is applied
PassesAnything(ix, node, filterOptions) == TRUE

\* passesFilters, lines 757-839
PassesFilters(ix, node, filterOptions) ==
  /\ filterOptions.filePatterns # <<>> =>
       /\ node.file # <<>>
       /\ \E k \in 1..Len(filterOptions.filePatterns) :
            SiPatternTest(filterOptions.filePatterns[k], node.file)
  /\ filterOptions.metadataFilters # <<>> =>
       /\ node.metadata # <<>>
       /\ \A k \in 1..Len(filterOptions.metadataFilters) :
            LET key == filterOptions.metadataFilters[k][1]
                value == filterOptions.metadataFilters[k][2]
            IN /\ MHas(node.metadata[1], key)
               /\ MGet(node.metadata[1], key)[1] = value
  /\ filterOptions.relationFilters # <<>> =>
       LET relationType == filterOptions.relationFilters[1].relationType
           connectedTo == filterOptions.relationFilters[1].connectedTo
       IN (relationType # <<>> \/ connectedTo # <<>>) =>
            SiHasRequiredRelation(ix, node, relationType, connectedTo)
  /\ ~InSeq(node.id, filterOptions.excludeNodeIds)

\* nodeTypes.length > 0 && !nodeTypes.includes(node.type), negated
SiTypeWanted(node, nodeTypes) == nodeTypes = <<>> \/ InSeq(node.type, nodeTypes)

\* if (!existing || existing.score < score) candidates.set(nodeId, ...)
SiOffer(candidates, node, score, queryTerms) ==
  LET existing == MGet(candidates, node.id)
  IN IF existing = <<>> \/ RGreater(score, existing[1].score)
     THEN MSet(candidates, node.id,
               [node |-> node, score |-> score,
                matchedFields |-> GetMatchedFields(node, queryTerms)])
     ELSE candidates

\* the inner loops of the term pass and of the fuzzy pass, lines 223-244 and
\* 254-281: the nodes of the ids that pass the filters are offered with
\* calculateScore(node, queryTerms, [matchType]) * factor
RECURSIVE SiOfferIds(_, _, _, _, _, _, _)
SiOfferIds(ix, candidates, nodeIds, queryTerms, options, matchType, factor) ==
  IF nodeIds = <<>> \/ ~Evaluated(candidates) THEN candidates
  ELSE LET node == MGet(ix.nodeIndex, Head(nodeIds))[1]
           next ==
             IF /\ PassesFilters(ix, node, options.filterOptions)
                /\ SiTypeWanted(node, options.nodeTypes)
             THEN SiOffer(candidates, node,
                          RMul(CalculateScore(node, queryTerms, matchType),
                               factor),
                          queryTerms)
             ELSE candidates
       IN SiOfferIds(ix, next, Tail(nodeIds), queryTerms, options, matchType,
                     factor)

\* direct term matching, lines 220-245
RECURSIVE SiTermPass(_, _, _, _, _)
SiTermPass(ix, candidates, terms, queryTerms, options) ==
  IF terms = <<>> \/ ~Evaluated(candidates) THEN candidates
  ELSE LET matching == MGet(ix.termIndex, Head(terms))
       IN SiTermPass(ix,
            SiOfferIds(ix, candidates,
                       IF matching = <<>> THEN <<>> ELSE matching[1],
                       queryTerms, options, "exact", Ratio(1, 1)),
            Tail(terms), queryTerms, options)

\* fuzzy matching, lines 248-285: for one entry of termIndex, the loop over
\* the query terms
RECURSIVE SiFuzzyEntry(_, _, _, _, _, _)
SiFuzzyEntry(ix, candidates, entry, terms, queryTerms, options) ==
  IF terms = <<>> \/ ~Evaluated(candidates) THEN candidates
  ELSE LET similarity == CalculateStringSimilarity(entry[1], Head(terms))
       IN SiFuzzyEntry(ix,
            IF SiIsSimilar(similarity)
            THEN SiOfferIds(ix, candidates, entry[2], queryTerms, options,
                            "fuzzy", similarity)
            ELSE candidates,
            entry, Tail(terms), queryTerms, options)

RECURSIVE SiFuzzyPass(_, _, _, _, _)
SiFuzzyPass(ix, candidates, k, queryTerms, options) ==
  IF k > Len(ix.termIndex) \/ ~Evaluated(candidates) THEN candidates
  ELSE SiFuzzyPass(ix,
         SiFuzzyEntry(ix, candidates, ix.termIndex[k], queryTerms,
                      queryTerms, options),
         k + 1, queryTerms, options)

\* partial matching, lines 288-311; threshold is 0.1
RECURSIVE SiPartialPass(_, _, _, _, _)
SiPartialPass(ix, candidates, k, queryTerms, options) ==
  IF k > Len(ix.nodes) \/ ~Evaluated(candidates) THEN candidates
  ELSE LET node == ix.nodes[k]
           score == CalculateScore(node, queryTerms, "partial")
       IN SiPartialPass(ix,
            IF /\ PassesFilters(ix, node, options.filterOptions)
               /\ SiTypeWanted(node, options.nodeTypes)
               /\ ~MHas(candidates, node.id)
               /\ RGreater(score, Ratio(1, 10))
            THEN MSet(candidates, node.id,
                      [node |-> node, score |-> score,
                       matchedFields |-> GetMatchedFields(node, queryTerms)])
            ELSE candidates,
            k + 1, queryTerms, options)

SiMaxScore(results) ==
  CHOOSE s \in {results[i].score : i \in 1..Len(results)} :
    \A i \in 1..Len(results) : ~RGreater(results[i].score, s)

\* results.sort((a, b) => b.score - a.score)
RECURSIVE SiSortByScore(_)
SiSortByScore(results) ==
  IF results = <<>> THEN <<>>
  ELSE LET m == SiMaxScore(results)
           k == CHOOSE i \in 1..Len(results) :
                  /\ results[i].score = m
                  /\ \A j \in 1..(i - 1) : results[j].score # m
       IN <<results[k]>> \o SiSortByScore(RemoveAt(results, k))

\* calculateTermOverlap, lines 924-941, the count of one term of terms1 in
\* halves: 2 for an equal term, 1 for one that contains it or is contained
RECURSIVE SiOverlapOfTerm(_, _)
SiOverlapOfTerm(term1, terms2) ==
  IF terms2 = <<>> THEN 0
  ELSE IF term1 = Head(terms2) THEN 2
  ELSE IF Includes(term1, Head(terms2)) \/ Includes(Head(terms2), term1)
  THEN 1
  ELSE SiOverlapOfTerm(term1, Tail(terms2))

RECURSIVE SiOverlapSum(_, _)
SiOverlapSum(terms1, terms2) ==
  IF terms1 = <<>> THEN 0
  ELSE SiOverlapOfTerm(Head(terms1), terms2) + SiOverlapSum(Tail(terms1), terms2)

CalculateTermOverlap(terms1, terms2) ==
  IF terms1 = <<>> \/ terms2 = <<>> THEN RZero
  ELSE Ratio(SiOverlapSum(terms1, terms2),
             2 * (IF Len(terms1) > Len(terms2) THEN Len(terms1)
                  ELSE Len(terms2)))

\* getConnectedNodes, lines 874-890
RECURSIVE SiConnectedIds(_, _, _, _)
SiConnectedIds(edges, k, nodeId, ids) ==
  IF k > Len(edges) \/ ~Evaluated(ids) THEN ids
  ELSE SiConnectedIds(edges, k + 1, nodeId,
         IF edges[k].from = nodeId THEN SAdd(ids, edges[k].to)
         ELSE IF edges[k].to = nodeId THEN SAdd(ids, edges[k].from)
         ELSE ids)

GetConnectedNodes(ix, nodeId) ==
  LET ids == SiConnectedIds(ix.graph.edges, 1, nodeId, <<>>)
      known == SelectSeq(ids, LAMBDA id : MHas(ix.nodeIndex, id))
  IN [i \in 1..Len(known) |-> MGet(ix.nodeIndex, known[i])[1]]

\* the score of performSemanticSearch for one node, lines 377-403
SiSemanticScore(ix, node, query, queryTerms) ==
  LET doc == IF node.metadata = <<>> THEN <<>>
             ELSE MGet(node.metadata[1], Documentation)
      connected == GetConnectedNodes(ix, node.id)
      named == SelectSeq(connected, LAMBDA c :
                 c.name # <<>>
                 /\ Includes(ToLowerCase(c.name), ToLowerCase(query)))
  IN RAdd(RAdd(IF node.name # <<>>
               THEN RMul(CalculateTermOverlap(queryTerms,
                                              Tokenize(node.name)),
                         Ratio(2, 1))
               ELSE RZero,
               IF doc # <<>> /\ doc[1] # <<>>
               THEN RMul(CalculateTermOverlap(queryTerms, Tokenize(doc[1])),
                         Ratio(3, 1))
               ELSE RZero),
          RAdd(IF Includes(ToLowerCase(node.type), ToLowerCase(query))
               THEN Ratio(1, 1) ELSE RZero,
               Ratio(Len(named), 2)))

RECURSIVE SiSemanticPass(_, _, _, _, _, _)
SiSemanticPass(ix, results, k, query, queryTerms, options) ==
  IF k > Len(ix.nodes) \/ ~Evaluated(results) THEN results
  ELSE LET node == ix.nodes[k]
           score == SiSemanticScore(ix, node, query, queryTerms)
       IN SiSemanticPass(ix,
            IF /\ SiTypeWanted(node, options.nodeTypes)
               /\ PassesFilters(ix, node, options.filterOptions)
               /\ RGreater(score, Ratio(1, 10))
            THEN Append(results,
                        [node |-> node, score |-> score,
                         matchedFields |-> GetMatchedFields(node, queryTerms)])
            ELSE results,
            k + 1, query, queryTerms, options)

DefaultLimit == 10

\* performSemanticSearch, lines 359-423; options.limit || 10
PerformSemanticSearch(ix, query, options) ==
  Take(SiSortByScore(SiSemanticPass(ix, <<>>, 1, query, Tokenize(query),
                                    options)),
       IF options.limit = <<>> \/ options.limit = <<0>> THEN DefaultLimit
       ELSE options.limit[1])

\* search, lines 203-334; limit = 10 when absent
Search(ix, query, options) ==
  IF options.semanticSearch THEN PerformSemanticSearch(ix, query, options)
  ELSE
    LET queryTerms == Tokenize(query)
        direct == SiTermPass(ix, <<>>, queryTerms, queryTerms, options)
        fuzzy == IF options.fuzzy
                 THEN SiFuzzyPass(ix, direct, 1, queryTerms, options)
                 ELSE direct
        candidates == SiPartialPass(ix, fuzzy, 1, queryTerms, options)
    IN Take(SiSortByScore(MValues(candidates)),
            IF options.limit = <<>> THEN DefaultLimit ELSE options.limit[1])

\* advancedSearch, lines 425-484, of the parameters [textQuery, nodeTypes,
\* metadata, relationTypes, connectedToNodes, filePatterns, limit]
AdvancedSearch(ix, params) ==
  LET filterOptions ==
        [metadataFilters |-> params.metadata,
         relationFilters |->
           <<[relationType |-> Take(params.relationTypes, 1),
              connectedTo |-> params.connectedToNodes]>>,
         filePatterns |-> params.filePatterns,
         excludeNodeIds |-> <<>>]
      passing == SelectSeq(ix.nodes, LAMBDA node :
                   /\ PassesFilters(ix, node, filterOptions)
                   /\ SiTypeWanted(node, params.nodeTypes))
  IN IF params.textQuery # <<>>
     THEN Search(ix, params.textQuery,
                 [nodeTypes |-> params.nodeTypes, limit |-> params.limit,
                  fuzzy |-> TRUE, semanticSearch |-> FALSE,
                  filterOptions |-> filterOptions])
     ELSE Take([i \in 1..Len(passing) |->
                  [node |-> passing[i], score |-> Ratio(1, 1),
                   matchedFields |-> <<>>]],
               IF params.limit = <<>> THEN DefaultLimit ELSE params.limit[1])

(* The graphs, the queries and the options of the calls *)

SiNode(id, name, type, file, metadata) ==
  [id |-> id, name |-> name, type |-> type, file |-> file,
   metadata |-> metadata]

Layer == <<"l", "a", "y", "e", "r">>

Core == <<"c", "o", "r", "e">>

SiNodeA ==
  SiNode(<<"a">>, <<"l", "o", "a", "d">>, TypeFunction,
         <<"s", "r", "c", "/", "a", ".", "t", "s">>, <<<< <<Layer, Core>> >>>>)

SiNodeB ==
  SiNode(<<"b">>, <<"l", "o", "a", "d", "s">>, TypeClass,
         <<"l", "i", "b", "/", "b", ".", "j", "s">>, <<<<>>>>)

SiNodeC ==
  SiNode(<<"c">>, <<"c", "l", "a", "s", "s">>, TypeClass, <<>>, <<>>)

SiGraphs ==
  { [nodes |-> <<SiNodeA, SiNodeB, SiNodeC>>,
     edges |-> <<Edge(<<"a">>, <<"b">>, "CALLS"),
                 Edge(<<"b">>, <<"c">>, "IMPORTS")>>],
    [nodes |-> <<SiNodeB, SiNodeA>>,
     edges |-> <<Edge(<<"a">>, <<"b">>, "CALLS")>>] }

\* a name, a misspelt name, a part of a name, a word that is a name and a
\* type, two words, and a word too short to be a term
SiQueries ==
  {<<"l", "o", "a", "d">>, <<"l", "o", "a", "n">>, <<"o", "a">>,
   <<"c", "l", "a", "s", "s">>,
   <<"l", "o", "a", "d", " ", "c", "l", "a", "s", "s">>, <<"q">>}

SiFilePatterns == {<<>>, << <<"*", ".", "t", "s">> >>}

SiMetadataFilters == {<<>>, << <<Layer, Core>> >>}

SiNodeTypes == {<<>>, <<TypeClass>>}

SiLimits == {<<>>, <<1>>}

SiFilterOptions ==
  [filePatterns : SiFilePatterns,
   metadataFilters : SiMetadataFilters,
   relationFilters :
     {<<>>, <<[relationType |-> <<"CALLS">>, connectedTo |-> <<>>]>>,
      <<[relationType |-> <<>>, connectedTo |-> << <<"b">> >>]>>},
   excludeNodeIds : {<<>>, << <<"a">> >>}]

SiSearchOptions ==
  [nodeTypes : SiNodeTypes, limit : SiLimits, fuzzy : BOOLEAN,
   semanticSearch : BOOLEAN, filterOptions : SiFilterOptions]

SiAdvancedParams ==
  [textQuery : {<<>>, <<"l", "o", "a", "d">>},
   nodeTypes : SiNodeTypes,
   metadata : SiMetadataFilters,
   relationTypes : {<<>>, <<"CALLS">>, <<"IMPORTS", "CALLS">>},
   connectedToNodes : {<<>>, << <<"b">> >>},
   filePatterns : SiFilePatterns,
   limit : SiLimits]

InitSearch ==
  /\ siGraph \in SiGraphs
  /\ siIndex = BuildIndex(siGraph)
  /\ siCall = <<>>

IdleSearch ==
  /\ siGraph = [nodes |-> <<>>, edges |-> <<>>]
  /\ siIndex = BuildIndex(siGraph)
  /\ siCall = <<>>

\* a caller's index.search(query, options)
SiSearchCall ==
  /\ siCall = <<>>
  /\ \E query \in SiQueries, options \in SiSearchOptions :
       siCall' =
         <<[fn |-> "search", query |-> query, semantic |-> options.semanticSearch,
            asked |->
              [nodeTypes |-> options.nodeTypes,
               filePatterns |-> options.filterOptions.filePatterns,
               metadata |-> options.filterOptions.metadataFilters,
               relationTypes |->
                 IF options.filterOptions.relationFilters = <<>> THEN <<>>
                 ELSE options.filterOptions.relationFilters[1].relationType,
               connectedTo |->
                 IF options.filterOptions.relationFilters = <<>> THEN <<>>
                 ELSE options.filterOptions.relationFilters[1].connectedTo,
               excludeNodeIds |-> options.filterOptions.excludeNodeIds],
            results |-> Search(siIndex, query, options)]>>
  /\ UNCHANGED <<siGraph, siIndex>>
  /\ UNCHANGED siOthers

\* a caller's index.advancedSearch(params)
SiAdvancedSearchCall ==
  /\ siCall = <<>>
  /\ \E params \in SiAdvancedParams :
       siCall' =
         <<[fn |-> "advancedSearch", query |-> params.textQuery,
            semantic |-> FALSE,
            asked |->
              [nodeTypes |-> params.nodeTypes,
               filePatterns |-> params.filePatterns,
               metadata |-> params.metadata,
               relationTypes |-> params.relationTypes,
               connectedTo |-> params.connectedToNodes,
               excludeNodeIds |-> <<>>],
            results |-> AdvancedSearch(siIndex, params)]>>
  /\ UNCHANGED <<siGraph, siIndex>>
  /\ UNCHANGED siOthers

NextSearch == SiSearchCall \/ SiAdvancedSearchCall

(* Claims about SearchIndex *)

\* the node fails a filter the caller asked for
SiFailsFilter(node, asked) ==
  \/ asked.nodeTypes # <<>> /\ ~InSeq(node.type, asked.nodeTypes)
  \/ /\ asked.filePatterns # <<>>
     /\ \/ node.file = <<>>
        \/ \A k \in 1..Len(asked.filePatterns) :
             ~SiPatternTest(asked.filePatterns[k], node.file)
  \/ \E k \in 1..Len(asked.metadata) :
       \/ node.metadata = <<>>
       \/ ~MHas(node.metadata[1], asked.metadata[k][1])
       \/ MGet(node.metadata[1], asked.metadata[k][1])
            # <<asked.metadata[k][2]>>
  \/ /\ asked.relationTypes # <<>> \/ asked.connectedTo # <<>>
     /\ ~\E k \in 1..Len(siGraph.edges) :
           LET edge == siGraph.edges[k]
           IN /\ edge.from = node.id \/ edge.to = node.id
              /\ asked.relationTypes # <<>> =>
                   InSeq(edge.type, asked.relationTypes)
              /\ asked.connectedTo # <<>> =>
                   InSeq(IF edge.from = node.id THEN edge.to ELSE edge.from,
                         asked.connectedTo)
  \/ InSeq(node.id, asked.excludeNodeIds)

\* C16: no node returned by search (term, fuzzy, partial and semantic
\* passes) or by advancedSearch fails an active filter: node types, file
\* patterns, metadata equality, relation and connectivity, excluded ids.
C16_ResultsPassFilters ==
  siCall # <<>> =>
    \A i \in 1..Len(siCall[1].results) :
      ~SiFailsFilter(siCall[1].results[i].node, siCall[1].asked)

\* C16 witness: a search returned a node while a node of the graph that the
\* query matches by its name fails a filter asked for
C16_Witness ==
  /\ siCall # <<>>
  /\ siCall[1].fn = "search"
  /\ siCall[1].results # <<>>
  /\ \E k \in 1..Len(siGraph.nodes) :
       /\ SiFailsFilter(siGraph.nodes[k], siCall[1].asked)
       /\ \E t \in 1..Len(Tokenize(siCall[1].query)) :
            Includes(ToLowerCase(siGraph.nodes[k].name),
                     Tokenize(siCall[1].query)[t])

\* C18: every score of a result of SearchIndex.search lies in [0, 1], also
\* when a query term matches a term, the name and the type of a node.
C18_ScoreInUnitInterval ==
  (siCall # <<>> /\ siCall[1].fn = "search") =>
    \A i \in 1..Len(siCall[1].results) :
      LET score == siCall[1].results[i].score
      IN /\ score.d # 0
         /\ score.n >= 0
         /\ ~RGreater(score, Ratio(1, 1))

-----------------------------------------------------------------------------
(* DependencyAnalyzer.findCriticalPath (graph-explorer.ts:987-1029): the   *)
(* longest dependency chain from a node.  The dfs closure assigns the      *)
(* variables longestPath and maxLength of the enclosing call; they are     *)
(* passed through the recursion as the record st.                          *)

CpNode(id, name) == [id |-> id, name |-> name, type |-> "Function"]

CpNodeList ==
  <<CpNode(<<"A">>, <<"a", "l", "p", "h", "a">>),
    CpNode(<<"B">>, <<"b", "e", "t", "a">>),
    CpNode(<<"C">>, <<"g", "a", "m", "m", "a">>)>>

\* the graphs of the cycle detector: two-cycles, the three-cycle, a
\* self-loop, parallel edges and an edge to <<"D">>, the id of no node
CpGraphs ==
  {[nodes |-> CpNodeList, edges |-> PickFrom(CyEdgePool, S, 1)] :
     S \in {T \in SUBSET (1..Len(CyEdgePool)) :
              Cardinality(T) <= MaxCycleEdges}}

InitCritical ==
  /\ cpGraph \in CpGraphs
  /\ cpNodeId \in {cpGraph.nodes[i].id : i \in 1..Len(cpGraph.nodes)}
  /\ cpResult = <<>>

IdleCritical ==
  /\ cpGraph = [nodes |-> <<>>, edges |-> <<>>]
  /\ cpNodeId = <<>>
  /\ cpResult = <<>>

\* dfs(currentId, path), lines 995-1020, and the for loop of lines 1009-1017
\* over the edges left; both give [subpath, st], the value returned and the
\* variables after the call
RECURSIVE CpDfs(_, _, _, _), CpLoop(_, _, _, _, _)
CpDfs(graph, currentId, path, st) ==
  LET outgoingEdges == SelectSeq(graph.edges, LAMBDA e : e.from = currentId)
  IN IF outgoingEdges = <<>>
     THEN [subpath |-> path,
           st |-> IF Len(path) > st.maxLength
                  THEN [maxLength |-> Len(path), longestPath |-> path]
                  ELSE st]
     ELSE CpLoop(graph, outgoingEdges, path, <<>>, st)

CpLoop(graph, edges, path, longestSubpath, st) ==
  IF edges = <<>> THEN [subpath |-> longestSubpath, st |-> st]
  ELSE IF InSeq(Head(edges).to, path)
  THEN CpLoop(graph, Tail(edges), path, longestSubpath, st)
  ELSE LET sub == CpDfs(graph, Head(edges).to, Append(path, Head(edges).to),
                        st)
       IN CpLoop(graph, Tail(edges), path,
                 IF Len(sub.subpath) > Len(longestSubpath) THEN sub.subpath
                 ELSE longestSubpath,
                 sub.st)

\* longestPath.map(id => node ? node.name : id), lines 1025-1028
CpNames(graph, longestPath) ==
  [i \in 1..Len(longestPath) |->
     LET node == SelectSeq(graph.nodes, LAMBDA n : n.id = longestPath[i])
     IN IF node # <<>> THEN node[1].name ELSE longestPath[i]]

\* findCriticalPath(graph, nodeId); longestPath is kept next to the names
\* returned
FindCriticalPath(graph, nodeId) ==
  LET longestPath ==
        CpDfs(graph, nodeId, <<nodeId>>,
              [maxLength |-> 0, longestPath |-> <<>>]).st.longestPath
  IN [longestPath |-> longestPath, names |-> CpNames(graph, longestPath)]

\* a caller's findCriticalPath(graph, nodeId)
CpFindCriticalPathCall ==
  /\ cpResult = <<>>
  /\ cpResult' = <<FindCriticalPath(cpGraph, cpNodeId)>>
  /\ UNCHANGED <<cpGraph, cpNodeId>>
  /\ UNCHANGED cpOthers

NextCritical == CpFindCriticalPathCall

(* Claims about findCriticalPath *)

\* the ids that name an end of an edge, and the id the chain starts at
CpIds ==
  {cpNodeId} \cup {cpGraph.edges[k].from : k \in 1..Len(cpGraph.edges)}
             \cup {cpGraph.edges[k].to : k \in 1..Len(cpGraph.edges)}

\* path begins with cpNodeId, repeats no id and follows outgoing edges
CpIsChain(path) ==
  /\ path # <<>>
  /\ path[1] = cpNodeId
  /\ \A i, j \in 1..Len(path) : path[i] = path[j] => i = j
  /\ \A i \in 1..(Len(path) - 1) :
       \E k \in 1..Len(cpGraph.edges) :
         cpGraph.edges[k].from = path[i] /\ cpGraph.edges[k].to = path[i + 1]

CpChains ==
  UNION {{path \in [1..n -> CpIds] : CpIsChain(path)} :
           n \in 1..Cardinality(CpIds)}

\* C20: findCriticalPath(graph, nodeId) gives a longest acyclic chain from
\* nodeId: not empty, beginning with nodeId, repeating no node, following
\* outgoing edges, and no longer chain from nodeId exists; also when the
\* graph has cycles.  Stated of the ids of the chain, before they are
\* replaced by names.
C20_LongestChain ==
  cpResult # <<>> =>
    /\ CpIsChain(cpResult[1].longestPath)
    /\ \A path \in CpChains : Len(path) <= Len(cpResult[1].longestPath)

----------------------------------------------------------------------------
(* DependencyAnalyzer.findDependencies (graph-explorer.ts, lines 676-779) *)

DpQueries == {<<"A">>, <<"B">>, <<"D">>, <<"z">>}

DpDirections == {"incoming", "outgoing", "both"}

InitDeps ==
  /\ dpGraph \in ExGraphs
  /\ dpQuery \in DpQueries
  /\ dpDirection \in DpDirections
  /\ dpResult = <<>>

IdleDeps ==
  /\ dpGraph = [nodes |-> <<>>, edges |-> <<>>]
  /\ dpQuery = <<>>
  /\ dpDirection = "both"
  /\ dpResult = <<>>

DpUnknown == <<"U", "n", "k", "n", "o", "w", "n">>

\* id.split(/[_\/\\]/).pop(): what follows the last separator
RECURSIVE DpLastPart(_)
DpLastPart(id) ==
  IF id = <<>> THEN <<>>
  ELSE IF id[Len(id)] \in {"_", "/", "\\"} THEN <<>>
  ELSE Append(DpLastPart(SubSeq(id, 1, Len(id) - 1)), id[Len(id)])

\* lines 726-729: the edges into the resolved node
DpIncomingNoLoop(graph, resolvedNodeId, direction) ==
  IF direction \in {"both", "incoming"}
  THEN SelectSeq(graph.edges,
                 LAMBDA e : e.to = resolvedNodeId /\ e.from # resolvedNodeId)
  ELSE <<>>

DpIncomingEdges(graph, resolvedNodeId, direction) ==
  IF direction \in {"both", "incoming"}
  THEN SelectSeq(graph.edges, LAMBDA e : e.to = resolvedNodeId)
  ELSE <<>>

\* lines 731-734: the edges out of the resolved node
DpOutgoingEdges(graph, resolvedNodeId, direction) ==
  IF direction \in {"both", "outgoing"}
  THEN SelectSeq(graph.edges, LAMBDA e : e.from = resolvedNodeId)
  ELSE <<>>

\* lines 740-749 and 755-763: the entry of the node at the other end
DpEntry(graph, otherId, edge) ==
  LET otherNode == LookupGetNode(BuildNodeMap(graph), otherId)
  IN [id |-> otherId,
      name |-> IF otherNode # <<>> /\ otherNode[1].name # <<>>
               THEN otherNode[1].name
               ELSE IF DpLastPart(otherId) # <<>> THEN DpLastPart(otherId)
               ELSE DpUnknown,
      type |-> IF otherNode # <<>> /\ otherNode[1].type # ""
               THEN otherNode[1].type
               ELSE "Unknown",
      relationship |-> edge.type,
      distance |-> 1]

\* findDependencies(graphId, nodeQuery, direction) on the stored graph
FindDependencies(graph, nodeQuery, direction) ==
  LET node == LookupFindNode(BuildNodeMap(graph), nodeQuery)
  IN IF node = <<>>
     THEN [nodeInfo |-> <<>>, incoming |-> <<>>, outgoing |-> <<>>,
           directDependencies |-> 0, transitiveDependencies |-> 0]
     ELSE LET resolvedNodeId == node[1].id
              incomingEdges == DpIncomingEdges(graph, resolvedNodeId, direction)
              outgoingEdges == DpOutgoingEdges(graph, resolvedNodeId, direction)
              incoming == [i \in 1..Len(incomingEdges) |->
                             DpEntry(graph, incomingEdges[i].from,
                                     incomingEdges[i])]
              outgoing == [i \in 1..Len(outgoingEdges) |->
                             DpEntry(graph, outgoingEdges[i].to,
                                     outgoingEdges[i])]
          IN [nodeInfo |-> node, incoming |-> incoming,
              outgoing |-> outgoing,
              directDependencies |-> Len(incoming) + Len(outgoing),
              transitiveDependencies |-> 0]

\* a caller's findDependencies(graphId, nodeQuery, direction)
DpFindDependenciesCall ==
  /\ dpResult = <<>>
  /\ dpResult' = <<FindDependencies(dpGraph, dpQuery, dpDirection)>>
  /\ UNCHANGED <<dpGraph, dpQuery, dpDirection>>
  /\ UNCHANGED dpOthers

NextDeps == DpFindDependenciesCall

(* Claims about findDependencies *)

\* the positions of the graph's edges that leave id, and that enter id
DpEdgesFrom(id) == {k \in 1..Len(dpGraph.edges) : dpGraph.edges[k].from = id}
DpEdgesInto(id) == {k \in 1..Len(dpGraph.edges) : dpGraph.edges[k].to = id}

\* entries lists one entry of distance 1 for each edge of the positions ks:
\* as many entries name other and relation as edges of ks do
DpListsEdges(entries, ks, otherEnd(_)) ==
  /\ Len(entries) = Cardinality(ks)
  /\ \A i \in 1..Len(entries) : entries[i].distance = 1
  /\ \A k \in ks :
       LET e == dpGraph.edges[k]
       IN Cardinality({i \in 1..Len(entries) :
                         /\ entries[i].id = otherEnd(e)
                         /\ entries[i].relationship = e.type})
          = Cardinality({j \in ks :
                           /\ otherEnd(dpGraph.edges[j]) = otherEnd(e)
                           /\ dpGraph.edges[j].type = e.type})

DpResolved == dpResult # <<>> /\ dpResult[1].nodeInfo # <<>>

\* C23: for a resolved node with k outgoing and m incoming edges in the
\* graph, findDependencies with direction = both returns exactly k outgoing
\* and m incoming entries, each at distance 1 and labelled with its edge's
\* relation type, and directDependencies = k + m; a self-loop counts once in
\* each list.
C23_DirectDependencies ==
  (DpResolved /\ dpDirection = "both") =>
    LET id == dpResult[1].nodeInfo[1].id
    IN /\ DpListsEdges(dpResult[1].outgoing, DpEdgesFrom(id),
                       LAMBDA e : e.to)
       /\ DpListsEdges(dpResult[1].incoming, DpEdgesInto(id),
                       LAMBDA e : e.from)
       /\ dpResult[1].directDependencies =
            Cardinality(DpEdgesFrom(id)) + Cardinality(DpEdgesInto(id))

\* C23 witness: the dependencies of a node with a self-loop and another
\* edge, asked in both directions
C23_Witness ==
  /\ DpResolved /\ dpDirection = "both"
  /\ LET id == dpResult[1].nodeInfo[1].id
     IN /\ DpEdgesFrom(id) \cap DpEdgesInto(id) # {}
        /\ Cardinality(DpEdgesFrom(id) \cup DpEdgesInto(id)) >= 2
        /\ dpResult[1].directDependencies >= 3

----------------------------------------------------------------------------
(* SearchEngine.searchNodes (part_005:11-73) with its exact, fuzzy and     *)
(* semantic searches, and GraphExplorer.searchNodes (graph-explorer.ts,    *)
(* lines 194-290).  Scores are exact fractions.  The metadata of a node is *)
(* its documentation, <<>> when it has none.                               *)

MaxSeLimit == 2     \* largest limit a caller passes

TypeFile == <<"F", "i", "l", "e">>

SeNode(id, name, type, file, documentation) ==
  [id |-> id, name |-> name, type |-> type, file |-> file,
   documentation |-> documentation]

\* the ids File:a.ts, Function:foo@a.ts, Function:bar@a.ts,
\* Function:baz@foo.ts and Class:Foo@b.ts
SeIdFile ==
  <<"F", "i", "l", "e", ":", "a", ".", "t", "s">>

SeIdFoo ==
  <<"F", "u", "n", "c", "t", "i", "o", "n", ":", "f", "o", "o", "@", "a",
    ".", "t", "s">>

SeIdBar ==
  <<"F", "u", "n", "c", "t", "i", "o", "n", ":", "b", "a", "r", "@", "a",
    ".", "t", "s">>

SeIdBaz ==
  <<"F", "u", "n", "c", "t", "i", "o", "n", ":", "b", "a", "z", "@", "f",
    "o", "o", ".", "t", "s">>

SeIdClass ==
  <<"C", "l", "a", "s", "s", ":", "F", "o", "o", "@", "b", ".", "t", "s">>

\* The nodes File:a.ts, Function:foo@a.ts and Function:bar@a.ts; a function
\* baz of the file foo.ts; and a class Foo documented as "bar"
SeNodePool ==
  <<SeNode(SeIdFile, FileA, TypeFile, FileA, <<>>),
    SeNode(SeIdFoo, <<"f", "o", "o">>, TypeFunction, FileA, <<>>),
    SeNode(SeIdBar, <<"b", "a", "r">>, TypeFunction, FileA, <<>>),
    SeNode(SeIdBaz, <<"b", "a", "z">>, TypeFunction,
           <<"f", "o", "o", ".", "t", "s">>, <<>>),
    SeNode(SeIdClass, <<"F", "o", "o">>, TypeClass,
           <<"b", ".", "t", "s">>, <<<<"b", "a", "r">>>>)>>

SeEdges ==
  <<Edge(SeIdBar, SeIdFoo, "CALLS"),
    Edge(SeIdBaz, SeIdBar, "CALLS")>>

SeGraphs ==
  {[nodes |-> PickFrom(SeNodePool, S, 1), edges |-> SeEdges] :
     S \in SUBSET (1..Len(SeNodePool))}

\* the queries: a name, a name in another case, a file name that is part of
\* ids, two terms, and one that matches nothing
SeQueries ==
  {<<"f", "o", "o">>, <<"B", "A", "R">>, FileA,
   <<"f", "o", "o", " ", "z", "z">>, <<"q">>}

SeFilters ==
  [nodeTypes : {<<>>, <<TypeFunction>>},
   filePatterns : {<<>>, <<<<"a", ".", "*">>>>},
   excludeTypes : {<<>>, <<TypeClass>>}]

SeModes == {"exact", "fuzzy", "semantic"}

\* limit as passed: absent, or a number
SeLimits == {<<>>} \cup {<<n>> : n \in 0..MaxSeLimit}

InitEngine ==
  /\ seGraph \in SeGraphs
  /\ seFound = <<>>

IdleEngine ==
  /\ seGraph = [nodes |-> <<>>, edges |-> <<>>]
  /\ seFound = <<>>

\* new RegExp(pattern.replace(/\*/g, '.*')).test(file), line 33: of the
\* pattern "*" stands for any characters and "." for any one character; the
\* match may begin and end anywhere in the file path
RECURSIVE SeMatchesAt(_, _, _, _)
SeMatchesAt(pattern, p, file, f) ==
  IF p > Len(pattern) THEN TRUE
  ELSE IF pattern[p] = "*"
  THEN \E next \in f..(Len(file) + 1) :
         SeMatchesAt(pattern, p + 1, file, next)
  ELSE /\ f <= Len(file)
       /\ pattern[p] = "." \/ pattern[p] = file[f]
       /\ SeMatchesAt(pattern, p + 1, file, f + 1)

SePatternTest(pattern, file) ==
  \E f \in 1..(Len(file) + 1) : SeMatchesAt(pattern, 1, file, f)

\* lines 22-44: the three filters
SeFilteredNodes(nodes, filters) ==
  LET byType == IF Len(filters.nodeTypes) > 0
                THEN SelectSeq(nodes,
                       LAMBDA node : InSeq(node.type, filters.nodeTypes))
                ELSE nodes
      byFile == IF Len(filters.filePatterns) > 0
                THEN SelectSeq(byType, LAMBDA node :
                       \E k \in 1..Len(filters.filePatterns) :
                         SePatternTest(filters.filePatterns[k], node.file))
                ELSE byType
  IN IF Len(filters.excludeTypes) > 0
     THEN SelectSeq(byFile,
            LAMBDA node : ~InSeq(node.type, filters.excludeTypes))
     ELSE byFile

\* line 86: node.id.toLowerCase().includes(query.toLowerCase())
SeMatchesId(idLower, queryLower) == Includes(idLower, queryLower)

\* exactSearch, lines 78-99
ExactSearch(nodes, query) ==
  LET queryLower == ToLowerCase(query)
      matchesName(node) == ToLowerCase(node.name) = queryLower
      matchesMetadata(node) ==
        /\ node.documentation # <<>>
        /\ ToLowerCase(node.documentation[1]) = queryLower
      kept == SelectSeq(nodes, LAMBDA node :
                \/ matchesName(node)
                \/ SeMatchesId(ToLowerCase(node.id), queryLower)
                \/ matchesMetadata(node))
  IN [i \in 1..Len(kept) |->
        [node |-> kept[i],
         score |-> IF matchesName(kept[i]) THEN Ratio(1, 1)
                   ELSE Ratio(9, 10)]]

\* text.split(/\W+/): the runs of word characters, with an empty word ahead
\* of a leading separator and after a trailing one
RECURSIVE SeWordsFrom(_, _, _)
SeWordsFrom(text, i, word) ==
  IF i > Len(text) THEN <<word>>
  ELSE IF text[i] \in WordChars
  THEN SeWordsFrom(text, i + 1, Append(word, text[i]))
  ELSE IF i > 1 /\ text[i - 1] \notin WordChars
  THEN SeWordsFrom(text, i + 1, word)
  ELSE <<word>> \o SeWordsFrom(text, i + 1, <<>>)

\* hasPartialMatch, lines 181-185
HasPartialMatch(text, query) ==
  LET words == SeWordsFrom(text, 1, <<>>)
  IN \E k \in 1..Len(words) :
       Includes(words[k], query) \/ Includes(query, words[k])

\* the score of a node in fuzzySearch, lines 111-141
SeFuzzyScore(node, queryLower) ==
  LET nameLower == ToLowerCase(node.name)
      idLower == ToLowerCase(node.id)
  IN IF Includes(nameLower, queryLower)
     THEN RAdd(Ratio(8, 10),
               RMul(Ratio(Len(queryLower), Len(nameLower)), Ratio(2, 10)))
     ELSE IF Includes(idLower, queryLower)
     THEN RAdd(Ratio(6, 10),
               RMul(Ratio(Len(queryLower), Len(idLower)), Ratio(2, 10)))
     ELSE IF HasPartialMatch(nameLower, queryLower) THEN Ratio(5, 10)
     ELSE IF Includes(ToLowerCase(node.file), queryLower) THEN Ratio(4, 10)
     ELSE IF /\ node.documentation # <<>>
             /\ Includes(ToLowerCase(node.documentation[1]), queryLower)
     THEN Ratio(3, 10)
     ELSE RZero

\* the nodes scored, those of a score above 0 kept and sorted, lines 143-144
\* and 171-172
SeScored(nodes, score(_)) ==
  LET scored == [i \in 1..Len(nodes) |->
                   [node |-> nodes[i], score |-> score(nodes[i])]]
  IN SiSortByScore(SelectSeq(scored, LAMBDA r : RGreater(r.score, RZero)))

\* fuzzySearch, lines 103-145
SeFuzzySearch(nodes, query) ==
  SeScored(nodes, LAMBDA node : SeFuzzyScore(node, ToLowerCase(query)))

\* text.split(/\s+/): the runs between blanks, with an empty term ahead of a
\* leading blank and after a trailing one
RECURSIVE SeTermsFrom(_, _, _)
SeTermsFrom(text, i, term) ==
  IF i > Len(text) THEN <<term>>
  ELSE IF text[i] # " "
  THEN SeTermsFrom(text, i + 1, Append(term, text[i]))
  ELSE IF i > 1 /\ text[i - 1] = " "
  THEN SeTermsFrom(text, i + 1, term)
  ELSE <<term>> \o SeTermsFrom(text, i + 1, <<>>)

\* the score of a node in semanticSearch, lines 158-170; the nodes have no
\* parameters, which join to the empty string
SeSemanticScore(node, queryTerms) ==
  LET nodeText ==
        ToLowerCase(Join(<<node.name, node.type, node.file,
                           IF node.documentation # <<>>
                           THEN node.documentation[1] ELSE <<>>,
                           <<>>>>, <<" ">>))
      matchingTerms == SelectSeq(queryTerms,
                                 LAMBDA term : Includes(nodeText, term))
  IN Ratio(Len(matchingTerms), Len(queryTerms))

\* semanticSearch, lines 150-173
SemanticSearch(nodes, query) ==
  SeScored(nodes, LAMBDA node :
    SeSemanticScore(node, SeTermsFrom(ToLowerCase(query), 1, <<>>)))

\* searchNodes, lines 11-73: the results sorted and cut to limit, kept here
\* with their scores; the nodes of these are what is returned
SeSearchNodes(graph, query, filters, searchMode, limit) ==
  LET filteredNodes == SeFilteredNodes(graph.nodes, filters)
      results == CASE searchMode = "exact" -> ExactSearch(filteredNodes, query)
                   [] searchMode = "fuzzy" ->
                        SeFuzzySearch(filteredNodes, query)
                   [] searchMode = "semantic" ->
                        SemanticSearch(filteredNodes, query)
  IN Take(SiSortByScore(results),
          IF limit = <<>> THEN DefaultLimit ELSE limit[1])

\* matchingNodes.sort(...), lines 256-265: the nodes whose name includes the
\* query ahead of the others, each group in its order
SeNameFirst(nodes, normalizedQuery) ==
  SelectSeq(nodes,
            LAMBDA node : Includes(ToLowerCase(node.name), normalizedQuery))
  \o SelectSeq(nodes,
               LAMBDA node :
                 ~Includes(ToLowerCase(node.name), normalizedQuery))

\* GraphExplorer.searchNodes, lines 194-290, on the stored graph; the
\* options as passed, 0 and FALSE for absent
ExplorerSearchNodes(graph, query, options) ==
  LET limit == IF options.limit = 0 THEN DefaultLimit ELSE options.limit
      normalizedQuery == ToLowerCase(query)
      documented(node, test(_)) ==
        /\ node.documentation # <<>> /\ node.documentation[1] # <<>>
        /\ test(ToLowerCase(node.documentation[1]))
      matchingNodes ==
        SelectSeq(graph.nodes, LAMBDA node :
          /\ Len(options.nodeTypes) > 0 => InSeq(node.type, options.nodeTypes)
          /\ IF options.exactMatch
             THEN \/ ToLowerCase(node.name) = normalizedQuery
                  \/ ToLowerCase(node.id) = normalizedQuery
                  \/ documented(node, LAMBDA d : d = normalizedQuery)
             ELSE \/ Includes(ToLowerCase(node.name), normalizedQuery)
                  \/ Includes(ToLowerCase(node.id), normalizedQuery)
                  \/ documented(node,
                                LAMBDA d : Includes(d, normalizedQuery)))
      sorted == SeNameFirst(matchingNodes, normalizedQuery)
      found == Take(sorted, limit)
      nodeIds == {found[i].id : i \in 1..Len(found)}
  IN [nodes |-> found,
      edges |-> IF options.includeEdges /\ Len(found) > 0
                THEN SelectSeq(graph.edges, LAMBDA edge :
                       edge.from \in nodeIds /\ edge.to \in nodeIds)
                ELSE <<>>,
      total |-> Len(matchingNodes),
      truncated |-> Len(matchingNodes) > limit]

\* a caller's searchEngine.searchNodes(graph, query, filters, searchMode,
\* limit)
SeSearchNodesCall ==
  /\ seFound = <<>>
  /\ \E query \in SeQueries, filters \in SeFilters, searchMode \in SeModes,
        limit \in SeLimits :
       LET results == SeSearchNodes(seGraph, query, filters, searchMode, limit)
       IN seFound' = <<[on |-> "SearchEngine", query |-> query,
                        filters |-> filters, searchMode |-> searchMode,
                        limit |-> limit, results |-> results,
                        nodes |-> [i \in 1..Len(results) |->
                                     results[i].node]]>>
  /\ UNCHANGED seGraph
  /\ UNCHANGED seOthers

\* a caller's graphExplorer.searchNodes(graphId, query, options)
SeExplorerSearchNodesCall ==
  /\ seFound = <<>>
  /\ \E query \in SeQueries,
        options \in [limit : 0..MaxSeLimit,
                     nodeTypes : {<<>>, <<TypeFunction>>},
                     includeEdges : BOOLEAN, exactMatch : BOOLEAN] :
       LET found == ExplorerSearchNodes(seGraph, query, options)
       IN seFound' = <<[on |-> "GraphExplorer", query |-> query,
                        filters |-> [nodeTypes |-> options.nodeTypes,
                                     filePatterns |-> <<>>,
                                     excludeTypes |-> <<>>],
                        searchMode |-> IF options.exactMatch THEN "exact"
                                       ELSE "partial",
                        limit |-> <<IF options.limit = 0 THEN DefaultLimit
                                    ELSE options.limit>>,
                        results |-> <<>>, nodes |-> found.nodes,
                        edges |-> found.edges, total |-> found.total,
                        truncated |-> found.truncated]>>
  /\ UNCHANGED seGraph
  /\ UNCHANGED seOthers

NextEngine == SeSearchNodesCall \/ SeExplorerSearchNodesCall

(* Claims about the exact search *)

\* an exact-mode search has been made
SeExactCall == seFound # <<>> /\ seFound[1].searchMode = "exact"

\* the limit of the call
SeLimit(call) == IF call.limit = <<>> THEN DefaultLimit ELSE call.limit[1]

\* C26: an exact-mode search for q returns every node whose name equals q
\* case-insensitively (of those the filters admit, as far as the limit
\* goes), scores each returned node 0.9 or 1.0, and returns no node whose
\* name differs from q and whose id is not q.
C26_ExactSearch ==
  SeExactCall =>
    LET call == seFound[1]
        q == ToLowerCase(call.query)
    IN /\ \A k \in 1..Len(seGraph.nodes) :
            (/\ ToLowerCase(seGraph.nodes[k].name) = q
             /\ SeFilteredNodes(<<seGraph.nodes[k]>>, call.filters) # <<>>
             /\ Len(call.nodes) < SeLimit(call))
              => InSeq(seGraph.nodes[k], call.nodes)
       /\ \A i \in 1..Len(call.results) :
            call.results[i].score \in {Ratio(9, 10), Ratio(1, 1)}
       /\ \A i \in 1..Len(call.nodes) :
            \/ ToLowerCase(call.nodes[i].name) = q
            \/ ToLowerCase(call.nodes[i].id) = q

----------------------------------------------------------------------------
(* Specifications, one per component *)

InitSpecExplore ==
  /\ InitExplore /\ InitIds /\ IdleIndex /\ IdlePath /\ IdleCycles
  /\ IdleService /\ IdleLookup /\ IdleEntry /\ IdleBuild /\ IdleFind
  /\ IdleSearch /\ IdleCritical /\ IdleDeps /\ IdleEngine
SpecExplore == InitSpecExplore /\ [][NextExplore]_vars

InitSpecIds ==
  /\ InitIds /\ IdleExplore /\ IdleIndex /\ IdlePath /\ IdleCycles
  /\ IdleService /\ IdleLookup /\ IdleEntry /\ IdleBuild /\ IdleFind
  /\ IdleSearch /\ IdleCritical /\ IdleDeps /\ IdleEngine
SpecIds == InitSpecIds /\ [][NextIds]_vars

InitSpecIndex ==
  /\ InitIndex /\ IdleExplore /\ InitIds /\ IdlePath /\ IdleCycles
  /\ IdleService /\ IdleLookup /\ IdleEntry /\ IdleBuild /\ IdleFind
  /\ IdleSearch /\ IdleCritical /\ IdleDeps /\ IdleEngine
SpecIndex == InitSpecIndex /\ [][NextIndex]_vars

InitSpecPath ==
  /\ InitPath /\ IdleExplore /\ InitIds /\ IdleIndex /\ IdleCycles
  /\ IdleService /\ IdleLookup /\ IdleEntry /\ IdleBuild /\ IdleFind
  /\ IdleSearch /\ IdleCritical /\ IdleDeps /\ IdleEngine
SpecPath == InitSpecPath /\ [][NextPath]_vars

InitSpecCycles ==
  /\ InitCycles /\ IdleExplore /\ InitIds /\ IdleIndex /\ IdlePath
  /\ IdleService /\ IdleLookup /\ IdleEntry /\ IdleBuild /\ IdleFind
  /\ IdleSearch /\ IdleCritical /\ IdleDeps /\ IdleEngine
SpecCycles == InitSpecCycles /\ [][NextCycles]_vars

InitSpecService ==
  /\ InitService /\ IdleExplore /\ InitIds /\ IdleIndex /\ IdlePath
  /\ IdleCycles /\ IdleLookup /\ IdleEntry /\ IdleBuild /\ IdleFind
  /\ IdleSearch /\ IdleCritical /\ IdleDeps /\ IdleEngine
SpecService == InitSpecService /\ [][NextService]_vars

\* The event loop runs the continuations that are ready: while a getCache
\* call waits for a settled promise, some such call resumes; a call resumes
\* once, so each of them does.
SpecServiceFair ==
  /\ InitSpecService /\ [][NextService]_vars
  /\ WF_vars(SvResume)

InitSpecLookup ==
  /\ InitLookup /\ IdleExplore /\ InitIds /\ IdleIndex /\ IdlePath
  /\ IdleCycles /\ IdleService /\ IdleEntry /\ IdleBuild /\ IdleFind
  /\ IdleSearch /\ IdleCritical /\ IdleDeps /\ IdleEngine
SpecLookup == InitSpecLookup /\ [][NextLookup]_vars

InitSpecEntry ==
  /\ InitEntry /\ IdleLookup /\ IdleExplore /\ InitIds /\ IdleIndex
  /\ IdlePath /\ IdleCycles /\ IdleService /\ IdleBuild /\ IdleFind
  /\ IdleSearch /\ IdleCritical /\ IdleDeps /\ IdleEngine
SpecEntry == InitSpecEntry /\ [][NextEntry]_vars

InitSpecBuild ==
  /\ InitBuild /\ IdleLookup /\ IdleExplore /\ InitIds /\ IdleIndex
  /\ IdlePath /\ IdleCycles /\ IdleService /\ IdleEntry /\ IdleFind
  /\ IdleSearch /\ IdleCritical /\ IdleDeps /\ IdleEngine
SpecBuild == InitSpecBuild /\ [][NextBuild]_vars

InitSpecFind ==
  /\ InitFind /\ IdleLookup /\ IdleExplore /\ InitIds /\ IdleIndex /\ IdlePath
  /\ IdleCycles /\ IdleService /\ IdleEntry /\ IdleBuild /\ IdleSearch
  /\ IdleCritical /\ IdleDeps /\ IdleEngine
SpecFind == InitSpecFind /\ [][NextFind]_vars

InitSpecSearch ==
  /\ InitSearch /\ IdleLookup /\ IdleExplore /\ InitIds /\ IdleIndex
  /\ IdlePath /\ IdleCycles /\ IdleService /\ IdleEntry /\ IdleBuild
  /\ IdleFind /\ IdleCritical /\ IdleDeps /\ IdleEngine
SpecSearch == InitSpecSearch /\ [][NextSearch]_vars

InitSpecCritical ==
  /\ InitCritical /\ IdleLookup /\ IdleExplore /\ InitIds /\ IdleIndex
  /\ IdlePath /\ IdleCycles /\ IdleService /\ IdleEntry /\ IdleBuild
  /\ IdleFind /\ IdleSearch /\ IdleDeps /\ IdleEngine
SpecCritical == InitSpecCritical /\ [][NextCritical]_vars

InitSpecDeps ==
  /\ InitDeps /\ IdleLookup /\ IdleExplore /\ InitIds /\ IdleIndex /\ IdlePath
  /\ IdleCycles /\ IdleService /\ IdleEntry /\ IdleBuild /\ IdleFind
  /\ IdleSearch /\ IdleCritical /\ IdleEngine
SpecDeps == InitSpecDeps /\ [][NextDeps]_vars

InitSpecEngine ==
  /\ InitEngine /\ IdleLookup /\ IdleExplore /\ InitIds /\ IdleIndex
  /\ IdlePath /\ IdleCycles /\ IdleService /\ IdleEntry /\ IdleBuild
  /\ IdleFind /\ IdleSearch /\ IdleCritical /\ IdleDeps
SpecEngine == InitSpecEngine /\ [][NextEngine]_vars

\* The four traversals together: a run is one call of exploreGraph, findPath
\* or findShortestPath, findCircularDependencies or findCriticalPath.
InitSpecTraversals ==
  InitSpecExplore \/ InitSpecPath \/ InitSpecCycles \/ InitSpecCritical

NextTraversals == NextExplore \/ NextPath \/ NextCycles \/ NextCritical

\* The calls are synchronous code between their awaits: a call that has
\* begun and has a next statement executes it.
SpecTraversalsFair ==
  /\ InitSpecTraversals /\ [][NextTraversals]_vars
  /\ WF_vars(NextTraversals)

\* the paths with which dfs of findCriticalPath is called, lines 995-1016,
\* from the call dfs(currentId, path) on
RECURSIVE CpDfsPaths(_, _, _)
CpDfsPaths(graph, currentId, path) ==
  LET outgoingEdges == SelectSeq(graph.edges, LAMBDA e : e.from = currentId)
      onward == {k \in 1..Len(outgoingEdges) :
                   ~InSeq(outgoingEdges[k].to, path)}
  IN {path} \cup
     UNION {CpDfsPaths(graph, outgoingEdges[k].to,
                       Append(path, outgoingEdges[k].to)) : k \in onward}

\* the call made has returned
TrReturned ==
  /\ exPc \in {"idle", "done"}
  /\ paPc \in {"idle", "done"}
  /\ cyPc \in {"idle", "done"}
  /\ cpNodeId # <<>> => cpResult # <<>>

\* no id twice on the path, and the path no longer than the graph has nodes
TrPathWithin(ids, graph) ==
  /\ \A i, j \in 1..Len(ids) : ids[i] = ids[j] => i = j
  /\ Len(ids) <= Len(graph.nodes)

\* the current path of every dfs call of findCircularDependencies
TrCyclePaths ==
  \A k \in 1..Len(cyStack) :
    TrPathWithin([i \in 1..Len(cyStack[k].path) |-> cyStack[k].path[i].id],
                 cyGraph)

\* the path of every dfs call of a findCriticalPath that has run
TrCriticalPaths ==
  cpResult # <<>> =>
    \A path \in CpDfsPaths(cpGraph, cpNodeId, <<cpNodeId>>) :
      TrPathWithin(path, cpGraph)

\* C21: exploreGraph, findPath, findCircularDependencies and
\* findCriticalPath return on every finite graph (self-loops, parallel edges
\* and cycles included), and in the two depth-first searches no node is
\* twice on the current path, which is never longer than the graph has
\* nodes.
C21_TraversalsTerminate ==
  /\ <>TrReturned
  /\ [](TrCyclePaths /\ TrCriticalPaths)

====
